---- MODULE Spec2Model ----
(***************************************************************************)
(* Model of the crawl orchestration engine of scraper-lambdas:             *)
(*   - the bounded concurrent extractor (process_products,                 *)
(*     parse_product_page, extract_product_details),                       *)
(*   - the pagination resolver (find_next_page_url, create_next_page_url), *)
(*   - the completion detectors (is_category_complete,                     *)
(*     should_stop_pagination),                                            *)
(*   - the discovery walker (process_subcategory_with_pagination,          *)
(*     parse_subcategory_page, validate_page_has_products).                *)
(***************************************************************************)
EXTENDS Integers, Sequences, FiniteSets, TLC

(***************************************************************************)
(* Bounds of the model.                                                    *)
(***************************************************************************)
NumProducts == 2      \* product URLs the callers can pass to the extractor
MaxCalls == 2         \* extractor calls made in one behaviour
NumCallers == 2       \* coroutines that call into one scraper instance without waiting for each other
MaxConcurrentBound == 2   \* max_concurrent is drawn from 1..MaxConcurrentBound
MaxPageNumber == 3    \* page numbers in the URLs given to the pagination resolver
MaxLinks == 2         \* pagination candidates found on one page
NumSeeds == 2         \* subcategories walked in one behaviour
MaxPagesBound == 3    \* max_pages is drawn from 1..MaxPagesBound
MaxItems == 2         \* rows of the table items
MaxRecords == 2       \* records of one queue batch
MaxCategories == 2    \* category URLs of one discover run
MaxPageProducts == 4  \* new products on one listing page
MaxSizeElements == 2  \* size elements on one product page
MaxProductLinks == 2  \* links in the product grid of one listing page
Slack == 1            \* how far around a threshold the detector snapshots range
MaxStoreCalls == 3    \* calls that store extracted products in one run

(***************************************************************************)
(* URLs.  A URL is a record of its scheme, host, path and the sequence of  *)
(* its query parameters.  A path is the kind of page it names and a        *)
(* number: "product" stands for /<8+ digit code>p<nn>.html and "listing"   *)
(* for /woman/<slug>.html.  A parameter has a key and a value; num tells   *)
(* whether the value starts with a digit, and v is that number.            *)
(***************************************************************************)
MkURL(scheme, host, path, q) == [scheme |-> scheme, host |-> host, path |-> path, q |-> q]

MkPath(kind, id) == [kind |-> kind, id |-> id]

Param(k, v) == [k |-> k, num |-> TRUE, v |-> v]

EmptyURL == MkURL("", "", MkPath("", 0), <<>>)

RapsodiaHost == "www.rapsodia.com.ar"

ProductPath(i) == MkPath("product", i)

ProductURL(i) == MkURL("https", RapsodiaHost, ProductPath(i), <<>>)

(* /woman/<slug>.html with the given query. *)
ListingURL(i, q) == MkURL("https", RapsodiaHost, MkPath("listing", i), q)

ProductURLs == {ProductURL(i) : i \in 1..NumProducts}

(* validate_url: non-empty, an accepted protocol, and a Rapsodia URL. *)
validate_url(url) ==
    /\ url # EmptyURL
    /\ url.scheme \in {"http", "https", "file", "raw"}
    /\ url.host = RapsodiaHost

(***************************************************************************)
(* URL classification                                                      *)
(***************************************************************************)
(* re.search(r'p=\d+', url): a parameter p whose value starts with a digit *)
MatchesPage(param) == param.k = "p" /\ param.num

HasParam(url, k) == \E i \in DOMAIN url.q : url.q[i].k = k

(* Some pattern of non_product_patterns is found in the URL. *)
non_product_patterns(url) ==
    \/ url.q # <<>>                                  \* \.html\?
    \/ HasParam(url, "cat")                          \* cat=
    \/ \E i \in DOMAIN url.q : MatchesPage(url.q[i]) \* p=\d+
    \/ url.path.kind = "listing"                     \* /woman/.*\.html$

(* Some pattern of product_patterns is found in the URL. *)
product_patterns(url) == url.path.kind = "product"   \* \d{8,}.*\.html$

(* is_product_url, variant that tries the inclusion patterns first. *)
is_product_url_InclusionFirst(url) ==
    IF product_patterns(url) THEN TRUE
    ELSE FALSE

(* is_product_url: the exclusion patterns first, then the inclusion       *)
(* patterns, and False when nothing matches.                               *)
is_product_url(url) ==
    IF non_product_patterns(url) THEN FALSE
    ELSE IF product_patterns(url) THEN TRUE
    ELSE FALSE

(* validate_next_page_url *)
validate_next_page_url(url, current_url) ==
    /\ url # EmptyURL
    /\ url # current_url
    /\ url.host = RapsodiaHost
    /\ ~is_product_url(url)
    /\ url.scheme # "javascript"
    /\ ~HasParam(url, "cat")

(* The links of `hrefs` that pass validate_next_page_url, without         *)
(* duplicates, in the order of their first occurrence.                     *)
RECURSIVE UniqueValid(_, _, _)
UniqueValid(hrefs, current_url, unique_links) ==
    IF hrefs = <<>> THEN unique_links
    ELSE LET link == Head(hrefs) IN
         IF validate_next_page_url(link, current_url)
            /\ \A i \in DOMAIN unique_links : unique_links[i] # link
         THEN UniqueValid(Tail(hrefs), current_url, Append(unique_links, link))
         ELSE UniqueValid(Tail(hrefs), current_url, unique_links)

extract_pagination_links(hrefs, current_url) == UniqueValid(hrefs, current_url, <<>>)

(***************************************************************************)
(* Pagination resolver                                                     *)
(***************************************************************************)
(* re.search(r'p=(\d+)', url): the first page parameter of the URL. *)
PageMatches(url) == {i \in DOMAIN url.q : MatchesPage(url.q[i])}

HasPageNumber(url) == PageMatches(url) # {}

PageNumber(url) ==
    url.q[CHOOSE i \in PageMatches(url) : \A j \in PageMatches(url) : i <= j].v

(* Variant: any later page is taken for the next page. *)
IsNextPage_Later(page_num, current_page) == page_num > current_page

(* page_num == current_page + 1 *)
IsNextPage(page_num, current_page) == page_num = current_page + 1

(* Variant: the fallback takes the first link whatever it is. *)
IsOtherPage_Any(link, current_url) == TRUE

(* link != current_url *)
IsOtherPage(link, current_url) == link # current_url

(* The first loop: the first link whose page number is the next page. *)
RECURSIVE FirstNextPage(_, _)
FirstNextPage(pagination_links, current_page) ==
    IF pagination_links = <<>> THEN EmptyURL
    ELSE LET link == Head(pagination_links) IN
         IF HasPageNumber(link) /\ IsNextPage(PageNumber(link), current_page)
         THEN link
         ELSE FirstNextPage(Tail(pagination_links), current_page)

(* The second loop: the first link that is not the current page. *)
RECURSIVE FirstOtherPage(_, _)
FirstOtherPage(pagination_links, current_url) ==
    IF pagination_links = <<>> THEN EmptyURL
    ELSE IF IsOtherPage(Head(pagination_links), current_url)
         THEN Head(pagination_links)
         ELSE FirstOtherPage(Tail(pagination_links), current_url)

(* find_next_page_url; EmptyURL stands for None. *)
find_next_page_url(pagination_links, current_url) ==
    IF pagination_links = <<>> THEN EmptyURL
    ELSE LET current_page == IF HasPageNumber(current_url) THEN PageNumber(current_url) ELSE 1
             next == FirstNextPage(pagination_links, current_page)
         IN IF next # EmptyURL THEN next
            ELSE FirstOtherPage(pagination_links, current_url)

(* create_next_page_url: "" for an invalid URL, else the URL with         *)
(* ?p=<page_number> or &p=<page_number> appended.                          *)
create_next_page_url(current_url, page_number) ==
    IF ~validate_url(current_url) THEN EmptyURL
    ELSE [current_url EXCEPT !.q = Append(@, Param("p", page_number))]

(* The value parse_subcategory_page gives for next_page when only         *)
(* JavaScript pagination was detected.                                     *)
JavascriptPaginationDetected == MkURL("", "", MkPath("javascript_pagination_detected", 0), <<>>)

(***************************************************************************)
(* Completion detectors                                                    *)
(***************************************************************************)
CategoryEmptyLimit == 3

CategoryStallPages == 10

CategoryProductCap == 200

CategoryPageCap == 20

(* Variant: only a streak of exactly the limit completes. *)
is_category_complete_ExactStreak(consecutive_empty, new_products, visited, products) ==
    \/ consecutive_empty = CategoryEmptyLimit
    \/ new_products = 0 /\ visited > CategoryStallPages
    \/ products > CategoryProductCap
    \/ visited > CategoryPageCap

(* is_category_complete over the values it reads:                         *)
(* consecutive_empty_pages[c], new_products_found[c],                      *)
(* len(visited_urls_per_category[c]), len(products_by_category[c]).        *)
is_category_complete(consecutive_empty, new_products, visited, products) ==
    \/ consecutive_empty >= CategoryEmptyLimit
    \/ new_products = 0 /\ visited > CategoryStallPages
    \/ products > CategoryProductCap
    \/ visited > CategoryPageCap

PaginationEmptyLimit == 3

PaginationStallPages == 15

PaginationProductCap == 300

PaginationPageCap == 25

(* should_stop_pagination; products is len(products_by_category[c]). *)
should_stop_pagination(products, products_found, consecutive_empty, total_pages) ==
    \/ consecutive_empty >= PaginationEmptyLimit
    \/ products_found = 0 /\ total_pages > PaginationStallPages
    \/ products > PaginationProductCap
    \/ total_pages > PaginationPageCap

(***************************************************************************)
(* Python dicts are records; d.get(k) of a missing key is falsy.           *)
(***************************************************************************)
None == [none |-> TRUE]

Get(d, k) == IF k \in DOMAIN d THEN d[k] ELSE ""

(* validate_product_data: a url that starts with http, and a title or a   *)
(* description.                                                            *)
validate_product_data(product_info) ==
    /\ product_info # None
    /\ "url" \in DOMAIN product_info
    /\ product_info["url"] # EmptyURL
    /\ product_info["url"].scheme \in {"http", "https"}
    /\ ~(Get(product_info, "title") = "" /\ Get(product_info, "description") = "")

(***************************************************************************)
(* What the page fetcher and the field extractor can give for a product    *)
(* page: a failed crawl, a successful crawl without html, an exception     *)
(* raised while parsing, or html with a name and a description, each of    *)
(* which may be missing.                                                   *)
(***************************************************************************)
Names == {"", "N"}

Descriptions == {"", "D"}

(* A size element of the page: its label and whether is_element_disabled *)
(* finds it disabled.                                                      *)
SizeElement(label, disabled) == [label |-> label, disabled |-> disabled]

(* The labels size elements carry; the empty label is an element without  *)
(* data-option-label, text and aria-label.                                 *)
SizeLabels == {"", "s", "S", "M"}

SizeElements == {SizeElement(label, disabled) : label \in SizeLabels, disabled \in BOOLEAN}

(* One available size "S", or no size element at all. *)
OneSize == {<<>>, <<SizeElement("S", FALSE)>>}

(* str.upper() on the labels of the model. *)
Upper(size) == IF size = "s" THEN "S" ELSE size

InSeq(x, seq) == \E i \in DOMAIN seq : seq[i] = x

(* clean_size_text: the size mapping, or the text in upper case. *)
clean_size_text(size_text) == IF size_text = "" THEN "" ELSE Upper(size_text)

(* One turn of the loop over talles_raw, variant that lists a size in     *)
(* talles_todos only when its element is disabled.                         *)
talle_Unlisted(acc, talle_element) ==
    LET clean_size == clean_size_text(talle_element.label)
    IN IF clean_size = "" THEN acc
       ELSE [talles_todos |-> IF talle_element.disabled /\ ~InSeq(clean_size, acc.talles_todos)
                              THEN Append(acc.talles_todos, clean_size)
                              ELSE acc.talles_todos,
             talles_disponibles |-> IF ~talle_element.disabled
                                    THEN Append(acc.talles_disponibles, clean_size)
                                    ELSE acc.talles_disponibles]

(* One turn of the loop over talles_raw: the cleaned label enters         *)
(* talles_todos unless it is there, and talles_disponibles when the        *)
(* element is not disabled.                                                *)
talle(acc, talle_element) ==
    LET clean_size == clean_size_text(talle_element.label)
    IN IF clean_size = "" THEN acc
       ELSE [talles_todos |-> IF ~InSeq(clean_size, acc.talles_todos)
                              THEN Append(acc.talles_todos, clean_size)
                              ELSE acc.talles_todos,
             talles_disponibles |-> IF ~talle_element.disabled
                                    THEN Append(acc.talles_disponibles, clean_size)
                                    ELSE acc.talles_disponibles]

RECURSIVE TallesFrom(_, _)
TallesFrom(talles_raw, acc) ==
    IF talles_raw = <<>> THEN acc
    ELSE TallesFrom(Tail(talles_raw), talle(acc, Head(talles_raw)))

(* talles_todos and talles_disponibles of the size elements of a page. *)
talles(talles_raw) == TallesFrom(talles_raw, [talles_todos |-> <<>>, talles_disponibles |-> <<>>])

(* The pages a crawl can give: beside the name and the description a page *)
(* has a stock element ("in" or "out" by its text, "none" when it is      *)
(* missing), size elements, colors and images.                             *)
Pages(names, descriptions, stocks, talles_raw, colors, image_urls) ==
    [kind : {"html"}, nombre : names, description : descriptions, stock : stocks,
     talles_raw : talles_raw, colors : colors, image_urls : image_urls]

FailedResponses ==
    [kind : {"failed", "nohtml", "raise"}, nombre : {""}, description : {""}, stock : {"none"},
     talles_raw : {<<>>}, colors : {<<>>}, image_urls : {<<>>}]

ProductResponses ==
    FailedResponses \cup Pages(Names, Descriptions, {"in"}, {<<>>}, {<<>>}, {<<>>})

(* The availability of a page: the text of the stock element when there   *)
(* is one, else whether some size is available.                            *)
availability(resp) ==
    IF resp.stock # "none" THEN resp.stock = "in"
    ELSE talles(resp.talles_raw).talles_disponibles # <<>>

(* extract_product_details after safe_crawl_page has returned `resp`:     *)
(* None on a failed crawl, on missing html and on failed validation.       *)
extract_product_details(url, category_name, subcategory_name, resp) ==
    IF ~validate_url(url) \/ resp.kind # "html"
    THEN None
    ELSE LET product_info == [url |-> url,
                              category |-> category_name,
                              subcategory |-> subcategory_name,
                              nombre_producto |-> resp.nombre,
                              description |-> resp.description,
                              talles_disponibles |-> talles(resp.talles_raw).talles_disponibles,
                              talles_todos |-> talles(resp.talles_raw).talles_todos,
                              colors |-> resp.colors,
                              image_urls |-> resp.image_urls,
                              availability |-> availability(resp)]
         IN IF validate_product_data(product_info) THEN product_info ELSE None

(* The conversion to the format of the rest of the code. *)
formatted_info(product_info) ==
    [url |-> product_info["url"],
     category |-> product_info["category"],
     subcategory |-> product_info["subcategory"],
     title |-> product_info["nombre_producto"],
     description |-> product_info["description"],
     available_sizes |-> product_info["talles_disponibles"],
     colors |-> product_info["colors"],
     image_urls |-> product_info["image_urls"],
     availability |-> product_info["availability"]]

Categories == {"WOMAN", "SALE"}

(* The subcategories of WOMAN that start_crawling walks, in its order. *)
SubcategoryNames ==
    <<"JEANS", "CAMISAS_Y_TOPS", "REMERAS", "VESTIDOS", "CAMPERAS_KIMONOS", "PANTALONES",
      "BUZOS_SWEATERS", "POLLERAS_SHORTS", "CUEROS", "CALZADO", "CARTERAS_BOLSOS",
      "PAÑUELOS_ACCESORIOS", "BIJOU", "PERFUMES">>

Subcategories == {SubcategoryNames[i] : i \in DOMAIN SubcategoryNames}

(* The subcategory the extractor is called with directly. *)
CallerSubcategories == {"JEANS"}

(* Keys of products_by_category: the bare category name, or              *)
(* f"{category}_{subcategory}".                                            *)
CategoryKey(category_name) == <<category_name>>

SubcategoryKey(category_name, subcategory_name) == <<category_name, subcategory_name>>

Keys == {CategoryKey(c) : c \in Categories}
        \cup {SubcategoryKey(c, s) : c \in Categories, s \in Subcategories}

(* The key parse_product_page stores a product under. *)
ParseProductKey(category_name, subcategory_name) ==
    IF category_name \in {"WOMAN", "GIRLS", "DENIM"}
    THEN SubcategoryKey(category_name, subcategory_name)
    ELSE CategoryKey(category_name)

VARIABLES
    product_urls_extracted,   \* self.product_urls_extracted
    products_by_category,     \* self.products_by_category: key -> list
    call,                     \* per caller: the coroutine frame of its call
    fetches,                  \* per URL: calls of safe_crawl_page made for it
    fed,                      \* per URL: extractor calls the URL was passed to
    ncalls,                   \* extractor calls started so far
    resolver,                 \* the last call of find_next_page_url and its result
    detector,                 \* the last two snapshots given to a detector and the results
    product_urls,             \* self.product_urls
    visited_urls_per_category,  \* self.visited_urls_per_category
    new_products_found,       \* self.new_products_found
    consecutive_empty_pages,  \* self.consecutive_empty_pages
    category_progress,        \* self.category_progress[c]['pages_processed']
    walk,                     \* the frame of process_subcategory_with_pagination
    seeds_started,            \* subcategories start_crawling has started
    items,                    \* the rows of table items; item_id is the position
    item_images,              \* the rows of table item_images
    item_x_item_colors,       \* the rows of table item_x_item_colors
    store_log,                \* the changes the last store operation logged
    worker,                   \* the frame of the worker's lambda_handler
    discover,                 \* the frame of discover_and_enqueue
    crawl,                    \* the frame of safe_crawl_page
    output,                   \* what save_all_data has written, and whether the process exited
    extraction,               \* one product page through extract_product_details and the worker
    classified,               \* a URL and what the calls of is_product_url on it returned
    parsed,                   \* the products each parsed listing page returned, and the last grid
    txn,                      \* per connection: the open transaction of upsert_item
    pagination                \* discover_and_enqueue: category_urls, next_page, pages fetched

extractorVars == <<product_urls_extracted, products_by_category, call, fetches, fed, ncalls>>

pureVars == <<resolver, detector, crawl, output, extraction, classified, parsed, txn,
             pagination>>

progressVars == <<product_urls, visited_urls_per_category, new_products_found,
                  consecutive_empty_pages, category_progress>>

walkerVars == <<progressVars, walk, seeds_started>>

storeVars == <<items, item_images, item_x_item_colors, store_log>>

lambdaVars == <<storeVars, worker, discover>>

vars == <<extractorVars, pureVars, walkerVars, lambdaVars>>

Callers == 1..NumCallers

IdleCall == [pc |-> "idle", category |-> "", subcategory |-> "",
             urls_to_process |-> <<>>, i |-> 0, max_concurrent |-> 0,
             semaphore |-> 0, task |-> <<>>, results |-> <<>>]

Snapshot(consecutive_empty, new_products, products, pages) ==
    [consecutive_empty |-> consecutive_empty, new_products |-> new_products,
     products |-> products, pages |-> pages]

(* Before the resolver is given a page: no candidates, on a seed page. *)
NoResolver == [pagination_links |-> <<>>, current_url |-> ListingURL(1, <<>>), next_page |-> EmptyURL]

NoDetector == [variant |-> "", a |-> Snapshot(0, 0, 0, 0), b |-> Snapshot(0, 0, 0, 0),
               complete_a |-> FALSE, complete_b |-> FALSE]

IdleWalk == [pc |-> "idle", url |-> EmptyURL, current_url |-> EmptyURL, page_count |-> 0,
             max_pages |-> 0, consecutive_empty_pages |-> 0, total_products_found |-> 0,
             javascript_pagination_detected |-> FALSE,
             parent_category |-> "", subcategory_name |-> "",
             products_found |-> 0, next_page |-> EmptyURL, result |-> "",
             listing_fetches |-> 0, confirm_fetches |-> 0]

(* No call of safe_crawl_page yet: the attempts made so far, their        *)
(* outcomes and the pauses taken between them.                             *)
NoCrawl == [impl |-> "", pc |-> "idle", url |-> EmptyURL, attempt |-> 0, outcomes |-> <<>>,
            pauses |-> <<>>, result |-> ""]

(* No page extracted yet. *)
NoExtraction ==
    [pc |-> "idle", url |-> EmptyURL,
     resp |-> [kind |-> "", nombre |-> "", description |-> "", stock |-> "none",
               talles_raw |-> <<>>, colors |-> <<>>, image_urls |-> <<>>],
     product_info |-> None, item |-> None]

(* No URL classified yet. *)
NoClassified == [url |-> EmptyURL, results |-> <<>>]

(* No listing page parsed yet. *)
NoParsed == [results |-> <<>>, grid |-> <<>>]

(* The connections of two worker processes. *)
Connections == {"worker-1", "worker-2"}

(* No category URL handed over. *)
NoPagination == [category_urls |-> <<>>, next_page |-> EmptyURL, fetched |-> <<>>]

(* No transaction open. *)
NoTxn == [pc |-> "idle", d |-> None, existing |-> 0]

(* Nothing written and the process running. *)
NoOutput == [exited |-> FALSE, written |-> FALSE, product_urls |-> {},
             category_progress |-> <<>>, products_by_category |-> <<>>]

IdleWorker ==
    [pc |-> "idle", count |-> 0, n |-> 0, taken |-> 0, results |-> <<>>,
     synced |-> [item_id |-> 0, image_urls |-> <<>>, colors |-> <<>>], summary |-> [none |-> TRUE]]

IdleDiscover ==
    [pc |-> "idle", count |-> 0, walked |-> 0, page_count |-> 0, all_product_urls |-> <<>>,
     i |-> 0, batches |-> <<>>, total_urls |-> 0]

Init ==
    /\ items = <<>>
    /\ item_images = {}
    /\ item_x_item_colors = {}
    /\ store_log = {}
    /\ worker = IdleWorker
    /\ discover = IdleDiscover
    /\ product_urls = {}
    /\ visited_urls_per_category = [c \in Categories |-> {}]
    /\ new_products_found = [c \in Categories |-> 0]
    /\ consecutive_empty_pages = [c \in Categories |-> 0]
    /\ category_progress = [c \in Categories |-> 0]
    /\ walk = IdleWalk
    /\ seeds_started = 0
    /\ resolver = NoResolver
    /\ detector = NoDetector
    /\ crawl = NoCrawl
    /\ extraction = NoExtraction
    /\ classified = NoClassified
    /\ parsed = NoParsed
    /\ txn = [c \in Connections |-> NoTxn]
    /\ pagination = NoPagination
    /\ output = NoOutput
    /\ product_urls_extracted = {}
    /\ products_by_category = [k \in Keys |-> <<>>]
    /\ call = [c \in Callers |-> IdleCall]
    /\ fetches = [u \in ProductURLs |-> 0]
    /\ fed = [u \in ProductURLs |-> 0]
    /\ ncalls = 0

(***************************************************************************)
(* process_products                                                        *)
(***************************************************************************)
Min(a, b) == IF a < b THEN a ELSE b

(* All orders in which the elements of a set can be listed. *)
Orders(S) == {s \in [1..Cardinality(S) -> S] : \A a, b \in 1..Cardinality(S) : s[a] = s[b] => a = b}

(* Variant: one URL more than the concurrency cap in a batch. *)
batch_size_PlusOne(max_concurrent) == max_concurrent + 1

batch_size(max_concurrent) == max_concurrent

(* urls_to_process[i:i + batch_size], i counted from 0. *)
batch_urls(urls, i, size) == SubSeq(urls, i + 1, Min(i + size, Len(urls)))

NoResult == [kind |-> "pending"]

NewTasks(urls) == [k \in 1..Len(urls) |-> [pc |-> "created", url |-> urls[k], result |-> NoResult]]

(* The call up to its first await: filter the extracted URLs, return when *)
(* nothing is left, otherwise create the semaphore and the tasks of the    *)
(* first batch and wait in gather.                                         *)
process_products(c, category_name, subcategory_name, product_urls_to_process, max_concurrent, max_calls) ==
    /\ call[c].pc = "idle"
    /\ ncalls < max_calls
    /\ ncalls' = ncalls + 1
    /\ fed' = [u \in ProductURLs |-> IF u \in product_urls_to_process THEN fed[u] + 1 ELSE fed[u]]
    /\ \E order \in Orders(product_urls_to_process \ product_urls_extracted) :
         IF order = <<>>
         THEN call' = call
         ELSE call' = [call EXCEPT ![c] =
                 [pc |-> "gather", category |-> category_name,
                  subcategory |-> subcategory_name,
                  urls_to_process |-> order, i |-> 0,
                  max_concurrent |-> max_concurrent,
                  semaphore |-> max_concurrent,
                  task |-> NewTasks(batch_urls(order, 0, batch_size(max_concurrent))),
                  results |-> <<>>]]
    /\ UNCHANGED <<product_urls_extracted, products_by_category, fetches>>

(* Variant: the URL is never remembered. *)
MarkExtracted_Forget(extracted, url, product_info) == extracted

(* Variant: the URL is marked whatever the extraction gave. *)
MarkExtracted_Always(extracted, url, product_info) == extracted \cup {url}

(* The extracted set after a task got product_info for url. *)
MarkExtracted(extracted, url, product_info) ==
    IF product_info # None THEN extracted \cup {url} ELSE extracted

(* process_single_product up to its await: take the semaphore, check the  *)
(* extracted set again, and start the crawl of the product page.           *)
process_single_product_start(c, k) ==
    /\ call[c].pc = "gather"
    /\ k \in DOMAIN call[c].task
    /\ call[c].task[k].pc = "created"
    /\ call[c].semaphore > 0
    /\ LET url == call[c].task[k].url IN
         IF url \in product_urls_extracted
         THEN /\ call' = [call EXCEPT ![c].task[k].pc = "done",
                                      ![c].task[k].result = [kind |-> "none"]]
              /\ UNCHANGED fetches
         ELSE /\ call' = [call EXCEPT ![c].task[k].pc = "fetching",
                                      ![c].semaphore = @ - 1]
              /\ fetches' = [fetches EXCEPT ![url] = @ + 1]
    /\ UNCHANGED <<product_urls_extracted, products_by_category, fed, ncalls>>

(* process_single_product from the return of the crawl: mark the URL when *)
(* product_info came back, release the semaphore, return (url, info); an   *)
(* exception returns (url, None).                                          *)
process_single_product_finish(c, k, resp) ==
    /\ call[c].pc = "gather"
    /\ k \in DOMAIN call[c].task
    /\ call[c].task[k].pc = "fetching"
    /\ LET url == call[c].task[k].url
           product_info == extract_product_details(url, call[c].category, call[c].subcategory, resp)
       IN /\ product_urls_extracted' = MarkExtracted(product_urls_extracted, url, product_info)
          /\ call' = [call EXCEPT ![c].task[k].pc = "done",
                                  ![c].semaphore = @ + 1,
                                  ![c].task[k].result = [kind |-> "pair", url |-> url, info |-> product_info]]
    /\ UNCHANGED <<products_by_category, fetches, fed, ncalls>>

(* The records the result loop appends: every (url, product_info) whose   *)
(* formatted record passes validate_product_data, in the order of results. *)
RECURSIVE StoredRecords(_)
StoredRecords(results) ==
    IF results = <<>> THEN <<>>
    ELSE LET r == Head(results) IN
         IF r.kind = "pair" /\ r.info # None /\ validate_product_data(formatted_info(r.info))
         THEN <<formatted_info(r.info)>> \o StoredRecords(Tail(results))
         ELSE StoredRecords(Tail(results))

AllTasksDone(c) == \A k \in DOMAIN call[c].task : call[c].task[k].pc = "done"

(* The results of the tasks of a batch, in the order of the tasks. *)
batch_results(tasks) == [k \in DOMAIN tasks |-> tasks[k].result]

(* gather returns and the results of the batch are added to results:      *)
(* sleep when another batch follows, otherwise run the result loop and     *)
(* return.                                                                 *)
batch_gathered(c) ==
    /\ call[c].pc = "gather"
    /\ AllTasksDone(c)
    /\ LET results == call[c].results \o batch_results(call[c].task) IN
       IF call[c].i + batch_size(call[c].max_concurrent) < Len(call[c].urls_to_process)
       THEN /\ call' = [call EXCEPT ![c].pc = "sleep", ![c].results = results, ![c].task = <<>>]
            /\ UNCHANGED products_by_category
       ELSE /\ products_by_category' =
                 [products_by_category EXCEPT ![SubcategoryKey(call[c].category, call[c].subcategory)] =
                     @ \o StoredRecords(results)]
            /\ call' = [call EXCEPT ![c] = IdleCall]
    /\ UNCHANGED <<product_urls_extracted, fetches, fed, ncalls>>

(* The pause between two batches ends: the tasks of the next batch. *)
batch_sleep_done(c) ==
    /\ call[c].pc = "sleep"
    /\ LET next_i == call[c].i + batch_size(call[c].max_concurrent) IN
         call' = [call EXCEPT ![c].pc = "gather",
                              ![c].i = next_i,
                              ![c].task = NewTasks(batch_urls(call[c].urls_to_process, next_i,
                                                              batch_size(call[c].max_concurrent)))]
    /\ UNCHANGED <<product_urls_extracted, products_by_category, fetches, fed, ncalls>>

(***************************************************************************)
(* parse_product_page                                                      *)
(***************************************************************************)
(* Up to the await: return {} for an extracted URL, else start the crawl. *)
parse_product_page_start(c, url, category_name, subcategory_name, max_calls) ==
    /\ call[c].pc = "idle"
    /\ ncalls < max_calls
    /\ ncalls' = ncalls + 1
    /\ fed' = [fed EXCEPT ![url] = @ + 1]
    /\ IF url \in product_urls_extracted
       THEN UNCHANGED <<call, fetches>>
       ELSE /\ call' = [call EXCEPT ![c] =
                  [IdleCall EXCEPT !.pc = "parse", !.category = category_name,
                                   !.subcategory = subcategory_name,
                                   !.urls_to_process = <<url>>]]
            /\ fetches' = [fetches EXCEPT ![url] = @ + 1]
    /\ UNCHANGED <<product_urls_extracted, products_by_category>>

(* From the return of the crawl: on a valid formatted record mark the URL *)
(* and store the record.                                                   *)
parse_product_page_finish(c, resp) ==
    /\ call[c].pc = "parse"
    /\ LET url == call[c].urls_to_process[1]
           product_info == extract_product_details(url, call[c].category, call[c].subcategory, resp)
       IN IF product_info # None /\ validate_product_data(formatted_info(product_info))
          THEN /\ product_urls_extracted' = product_urls_extracted \cup {url}
               /\ products_by_category' =
                    [products_by_category EXCEPT ![ParseProductKey(call[c].category, call[c].subcategory)] =
                        Append(@, formatted_info(product_info))]
          ELSE UNCHANGED <<product_urls_extracted, products_by_category>>
    /\ call' = [call EXCEPT ![c] = IdleCall]
    /\ UNCHANGED <<fetches, fed, ncalls>>

(***************************************************************************)
(* The extractor under a set of callers, each of which awaits its own call *)
(* before it makes the next one.                                           *)
(***************************************************************************)
ExtractorNext(callers, urls, max_calls) ==
    \/ \E c \in callers, cat \in Categories, sub \in CallerSubcategories,
          us \in SUBSET urls, mc \in 1..MaxConcurrentBound :
            process_products(c, cat, sub, us, mc, max_calls)
    \/ \E c \in callers, k \in 1..(MaxConcurrentBound + 1) : process_single_product_start(c, k)
    \/ \E c \in callers, k \in 1..(MaxConcurrentBound + 1), resp \in ProductResponses :
            process_single_product_finish(c, k, resp)
    \/ \E c \in callers : batch_gathered(c)
    \/ \E c \in callers : batch_sleep_done(c)
    \/ \E c \in callers, url \in urls, cat \in Categories, sub \in CallerSubcategories :
            parse_product_page_start(c, url, cat, sub, max_calls)
    \/ \E c \in callers, resp \in ProductResponses : parse_product_page_finish(c, resp)

(* The walker is one coroutine: it awaits every extractor call before it  *)
(* makes the next one.                                                     *)
Next == ExtractorNext({1}, ProductURLs, MaxCalls) /\ UNCHANGED <<pureVars, lambdaVars, walkerVars>>

Spec == Init /\ [][Next]_vars

(* Callers that do not wait for each other: their calls overlap. *)
NextOverlap == ExtractorNext(Callers, ProductURLs, MaxCalls) /\ UNCHANGED <<pureVars, lambdaVars, walkerVars>>

SpecOverlap == Init /\ [][NextOverlap]_vars

(***************************************************************************)
(* The pagination resolver on the candidate lists and current URLs of one  *)
(* listing.                                                                *)
(***************************************************************************)
ResolverQueries ==
    {<<>>, <<Param("page", 2)>>}
    \cup {<<Param("p", n)>> : n \in 1..MaxPageNumber}
    \cup {<<Param("p", n), Param("p", n + 1)>> : n \in 1..(MaxPageNumber - 1)}

ResolverURLs == {ListingURL(1, q) : q \in ResolverQueries}

CandidateLists == UNION {[1..n -> ResolverURLs] : n \in 0..MaxLinks}

FindNextPage(pagination_links, current_url) ==
    /\ resolver' = [pagination_links |-> pagination_links, current_url |-> current_url,
                    next_page |-> find_next_page_url(pagination_links, current_url)]
    /\ UNCHANGED <<extractorVars, detector, crawl, output, extraction, classified, parsed, txn, pagination, walkerVars, lambdaVars>>

(* The resolver is given one page in a behaviour. *)
NextResolver ==
    resolver = NoResolver /\ \E links \in CandidateLists, url \in ResolverURLs : FindNextPage(links, url)

SpecResolver == Init /\ [][NextResolver]_vars

(***************************************************************************)
(* The completion detectors on pairs of progress snapshots around their    *)
(* thresholds.                                                             *)
(***************************************************************************)
Around(threshold) == (threshold - Slack)..(threshold + Slack)

CategorySnapshots ==
    {Snapshot(e, n, p, g) : e \in 0..(CategoryEmptyLimit + Slack), n \in 0..Slack,
                            p \in Around(CategoryProductCap),
                            g \in Around(CategoryStallPages) \cup Around(CategoryPageCap)}

PaginationSnapshots ==
    {Snapshot(e, n, p, g) : e \in 0..(PaginationEmptyLimit + Slack), n \in 0..Slack,
                            p \in Around(PaginationProductCap),
                            g \in Around(PaginationStallPages) \cup Around(PaginationPageCap)}

CategoryComplete(s) ==
    is_category_complete(s.consecutive_empty, s.new_products, s.pages, s.products)

PaginationStop(s) ==
    should_stop_pagination(s.products, s.new_products, s.consecutive_empty, s.pages)

EvaluateCategory(a, b) ==
    /\ detector' = [variant |-> "category", a |-> a, b |-> b,
                    complete_a |-> CategoryComplete(a), complete_b |-> CategoryComplete(b)]
    /\ UNCHANGED <<extractorVars, resolver, crawl, output, extraction, classified, parsed, txn, pagination, walkerVars, lambdaVars>>

EvaluatePagination(a, b) ==
    /\ detector' = [variant |-> "pagination", a |-> a, b |-> b,
                    complete_a |-> PaginationStop(a), complete_b |-> PaginationStop(b)]
    /\ UNCHANGED <<extractorVars, resolver, crawl, output, extraction, classified, parsed, txn, pagination, walkerVars, lambdaVars>>

(* A detector is given one pair of snapshots in a behaviour. *)
NextDetector ==
    \/ detector = NoDetector /\ \E a, b \in CategorySnapshots : EvaluateCategory(a, b)
    \/ detector = NoDetector /\ \E a, b \in PaginationSnapshots : EvaluatePagination(a, b)

SpecDetector == Init /\ [][NextDetector]_vars

(***************************************************************************)
(* The discovery walker: process_subcategory_with_pagination over the      *)
(* subcategories of WOMAN, as start_crawling calls it.                     *)
(***************************************************************************)
DefaultMaxConcurrent == 5

Seed(i) == ListingURL(i, <<>>)

(* The hrefs a page of listing i can carry in its pagination markup. *)
ListingLinks(i) == {Seed(i)} \cup {ListingURL(i, <<Param("p", n)>>) : n \in 2..MaxPageNumber}

(* A listing page of the walker carries at most one pagination href; the  *)
(* resolver is exercised on longer lists on its own.                       *)
HrefLists(i) == {<<>>} \cup {<<l>> : l \in ListingLinks(i)}

(* The product links the listing pages show. *)
ListedProducts == {ProductURL(1)}

(* What the fetch of a listing page can give: a failed crawl, a crawl     *)
(* without html, an exception, or html with product links, pagination      *)
(* hrefs and possibly the marks of JavaScript pagination.                  *)
ListingResponses(i, products) ==
    [kind : {"failed", "nohtml", "raise"}, product_links : {{}}, hrefs : {<<>>}, js : {FALSE}]
    \cup [kind : {"html"}, product_links : SUBSET products, hrefs : HrefLists(i), js : BOOLEAN]

(* Variant: the streak of the running call stands for the counter of the  *)
(* category.                                                               *)
IsCategoryComplete_OwnStreak(category_name) ==
    is_category_complete(walk.consecutive_empty_pages,
                         new_products_found[category_name],
                         Cardinality(visited_urls_per_category[category_name]),
                         Len(products_by_category[CategoryKey(category_name)]))

(* is_category_complete on the scraper. *)
IsCategoryComplete(category_name) ==
    is_category_complete(consecutive_empty_pages[category_name],
                         new_products_found[category_name],
                         Cardinality(visited_urls_per_category[category_name]),
                         Len(products_by_category[CategoryKey(category_name)]))

ShouldStopPagination(category_name, products_found, consecutive_empty, total_pages) ==
    should_stop_pagination(Len(products_by_category[CategoryKey(category_name)]),
                           products_found, consecutive_empty, total_pages)

(* The subcategory is completed: the call returns. *)
Return == walk' = IdleWalk

below_max_pages_Inclusive(page_count, max_pages) == page_count <= max_pages

(* The page ceiling of the while loop and of the synthetic next page. *)
below_max_pages(page_count, max_pages) == page_count < max_pages

(* start_crawling calls process_subcategory_with_pagination for the next  *)
(* subcategory of WOMAN.                                                   *)
process_subcategory_with_pagination(num_seeds, max_pages) ==
    /\ walk.pc = "idle"
    /\ seeds_started < num_seeds
    /\ seeds_started' = seeds_started + 1
    /\ walk' = [IdleWalk EXCEPT !.pc = "loop",
                                !.url = Seed(seeds_started + 1),
                                !.current_url = Seed(seeds_started + 1),
                                !.max_pages = max_pages,
                                !.parent_category = "WOMAN",
                                !.subcategory_name = SubcategoryNames[seeds_started + 1]]
    /\ UNCHANGED <<extractorVars, pureVars, lambdaVars, progressVars>>

(* The head of the while loop up to the crawl of parse_subcategory_page:  *)
(* count the page, stop on a complete category, else mark the URL visited  *)
(* and start the crawl.                                                    *)
loop_head ==
    /\ walk.pc = "loop"
    /\ IF walk.current_url # EmptyURL /\ below_max_pages(walk.page_count, walk.max_pages)
       THEN IF IsCategoryComplete(walk.parent_category)
            THEN Return /\ UNCHANGED visited_urls_per_category
            ELSE /\ walk' = [walk EXCEPT !.pc = "parsing",
                                         !.page_count = @ + 1,
                                         !.listing_fetches = @ + 1]
                 /\ visited_urls_per_category' =
                      [visited_urls_per_category EXCEPT ![walk.parent_category] = @ \cup {walk.current_url}]
       ELSE Return /\ UNCHANGED visited_urls_per_category
    /\ UNCHANGED <<extractorVars, pureVars, lambdaVars, product_urls, new_products_found,
                   consecutive_empty_pages, category_progress, seeds_started>>

(* next_page of parse_subcategory_page for a page with html. *)
NextPageOf(resp, url) ==
    LET next_page == find_next_page_url(extract_pagination_links(resp.hrefs, url), url)
    IN IF next_page = EmptyURL /\ resp.js THEN JavascriptPaginationDetected ELSE next_page

(* The links of a page that enter products, variant that does not look    *)
(* them up in self.product_urls.                                           *)
new_products_Relisted(product_links, seen) == {u \in product_links : is_product_url(u)}

(* The links of a page that enter products: those not in                   *)
(* self.product_urls that is_product_url accepts.                          *)
new_products(product_links, seen) ==
    {u \in product_links : u \notin seen /\ is_product_url(u)}

(* parse_subcategory_page from the return of its crawl, and the walker up *)
(* to its call of process_products.  A failed crawl and an exception       *)
(* return no products and no next page and leave the progress counters;    *)
(* otherwise the new product URLs are added to product_urls and the        *)
(* counters of the category are updated.                                   *)
parse_subcategory_page_return(resp) ==
    /\ walk.pc = "parsing"
    /\ validate_url(walk.current_url) \/ resp.kind = "failed"
    /\ LET c == walk.parent_category
           counted == resp.kind \in {"nohtml", "html"}
           products == IF resp.kind = "html"
                       THEN new_products(resp.product_links, product_urls)
                       ELSE {}
           next_page == IF resp.kind = "html" THEN NextPageOf(resp, walk.current_url) ELSE EmptyURL
           new_products_in_page == Cardinality(products)
           valid_product_urls == {u \in products : is_product_url(u)}
       IN /\ product_urls' = product_urls \cup products
          /\ consecutive_empty_pages' =
               IF ~counted THEN consecutive_empty_pages
               ELSE IF new_products_in_page = 0
                    THEN [consecutive_empty_pages EXCEPT ![c] = @ + 1]
                    ELSE [consecutive_empty_pages EXCEPT ![c] = 0]
          /\ new_products_found' =
               IF counted /\ new_products_in_page # 0
               THEN [new_products_found EXCEPT ![c] = @ + new_products_in_page]
               ELSE new_products_found
          /\ category_progress' = [category_progress EXCEPT ![c] = @ + 1]
          /\ IF valid_product_urls # {}
             THEN /\ process_products(1, c, walk.subcategory_name, valid_product_urls,
                                      DefaultMaxConcurrent, ncalls + 1)
                  /\ walk' = [walk EXCEPT !.pc = "extracting",
                                          !.result = IF counted THEN "counted" ELSE "failed",
                                          !.products_found = new_products_in_page,
                                          !.total_products_found = @ + new_products_in_page,
                                          !.next_page = next_page]
             ELSE /\ walk' = [walk EXCEPT !.pc = "check",
                                          !.result = IF counted THEN "counted" ELSE "failed",
                                          !.products_found = new_products_in_page,
                                          !.total_products_found = @ + new_products_in_page,
                                          !.next_page = next_page]
                  /\ UNCHANGED extractorVars
    /\ UNCHANGED <<pureVars, lambdaVars, visited_urls_per_category, seeds_started>>

(* process_products has returned to the walker. *)
process_products_returned ==
    /\ walk.pc = "extracting"
    /\ call[1].pc = "idle"
    /\ walk' = [walk EXCEPT !.pc = "check"]
    /\ UNCHANGED <<extractorVars, pureVars, lambdaVars, progressVars, seeds_started>>

(* The check of the page for products: an empty page extends the streak,  *)
(* and from the second empty page on the next page is crawled by           *)
(* validate_page_has_products (which crawls nothing for an invalid URL and *)
(* answers False); a page with products ends the streak.                   *)
empty_check ==
    /\ walk.pc = "check"
    /\ IF walk.products_found = 0
       THEN IF walk.consecutive_empty_pages + 1 >= 2 /\ walk.next_page # EmptyURL
            THEN IF validate_url(walk.next_page)
                 THEN walk' = [walk EXCEPT !.pc = "confirming",
                                           !.result = "",
                                           !.consecutive_empty_pages = @ + 1,
                                           !.confirm_fetches = @ + 1]
                 ELSE Return
            ELSE walk' = [walk EXCEPT !.pc = "decide", !.result = "",
                                      !.consecutive_empty_pages = @ + 1]
       ELSE walk' = [walk EXCEPT !.pc = "decide", !.result = "",
                                 !.consecutive_empty_pages = 0]
    /\ UNCHANGED <<extractorVars, pureVars, lambdaVars, progressVars, seeds_started>>

(* validate_page_has_products from the return of its crawl: has_products  *)
(* is False for a failed crawl, an exception and a page without product    *)
(* markers.                                                                *)
validate_page_has_products_return(has_products) ==
    /\ walk.pc = "confirming"
    /\ IF has_products THEN walk' = [walk EXCEPT !.pc = "decide"] ELSE Return
    /\ UNCHANGED <<extractorVars, pureVars, lambdaVars, progressVars, seeds_started>>

(* should_stop_pagination and the choice of the next page. *)
decide ==
    /\ walk.pc = "decide"
    /\ IF ShouldStopPagination(walk.parent_category, walk.products_found,
                               walk.consecutive_empty_pages, walk.page_count)
       THEN Return
       ELSE IF walk.next_page = JavascriptPaginationDetected
            THEN IF below_max_pages(walk.page_count, walk.max_pages)
                 THEN LET next_url == create_next_page_url(walk.current_url, walk.page_count + 1)
                      IN IF next_url # EmptyURL
                         THEN walk' = [walk EXCEPT !.pc = "loop", !.current_url = next_url,
                                                   !.javascript_pagination_detected = TRUE]
                         ELSE Return
                 ELSE Return
            ELSE IF walk.next_page # EmptyURL
                 THEN walk' = [walk EXCEPT !.pc = "loop", !.current_url = walk.next_page]
                 ELSE Return
    /\ UNCHANGED <<extractorVars, pureVars, lambdaVars, progressVars, seeds_started>>

(* What the fetch of a listed product can give the walker: a failed crawl *)
(* or a page with a name and a description.                                *)
ListedProductResponses ==
    {r \in ProductResponses : r.kind = "failed" \/ (r.nombre # "" /\ r.description # "")}

(* The tasks of the extractor call the walker waits for.  A page of the   *)
(* model carries fewer product links than max_concurrent, so the call is   *)
(* one batch.                                                              *)
WalkerExtractorNext ==
    \/ \E k \in 1..Cardinality(ListedProducts) : process_single_product_start(1, k)
    \/ \E k \in 1..Cardinality(ListedProducts), resp \in ListedProductResponses :
            process_single_product_finish(1, k, resp)
    \/ batch_gathered(1)

WalkerNext(num_seeds, max_pages_set) ==
    \/ \E max_pages \in max_pages_set : process_subcategory_with_pagination(num_seeds, max_pages)
    \/ loop_head
    \/ \E resp \in ListingResponses(walk.url.path.id, ListedProducts) : parse_subcategory_page_return(resp)
    \/ process_products_returned
    \/ empty_check
    \/ \E has_products \in BOOLEAN : validate_page_has_products_return(has_products)
    \/ decide
    \/ WalkerExtractorNext /\ UNCHANGED <<pureVars, lambdaVars, walkerVars>>

NextWalk == WalkerNext(NumSeeds, 1..MaxPagesBound)

(* Every crawl returns (safe_crawl_page gives up after max_retries        *)
(* attempts of at most timeout seconds each) and the event loop runs every *)
(* coroutine that is ready, so the walker keeps taking steps.              *)
SpecWalk == Init /\ [][NextWalk]_vars /\ WF_vars(NextWalk)

(***************************************************************************)
(* The walker over listing pages whose product pages may fail validation:  *)
(* extraction keeps the first product page that did.                       *)
(***************************************************************************)
(* The fetch of a listed product gives a failed crawl or html with or      *)
(* without a name and a description.                                       *)
FetchedProductResponses == {r \in ProductResponses : r.kind \in {"failed", "html"}}

(* process_single_product from the return of the crawl of a listed         *)
(* product.                                                                *)
listed_product_finish(k, resp) ==
    /\ process_single_product_finish(1, k, resp)
    /\ LET url == call[1].task[k].url
           product_info == extract_product_details(url, call[1].category, call[1].subcategory,
                                                   resp)
       IN extraction' = IF resp.kind = "html" /\ product_info = None /\ extraction.pc = "idle"
                        THEN [extraction EXCEPT !.pc = "extracted", !.url = url, !.resp = resp]
                        ELSE extraction
    /\ UNCHANGED <<resolver, detector, crawl, output, classified, parsed, txn, pagination, lambdaVars, walkerVars>>

NextRelist ==
    \/ process_subcategory_with_pagination(NumSeeds, MaxPagesBound)
    \/ loop_head
    \/ \E resp \in ListingResponses(walk.url.path.id, ListedProducts) :
           parse_subcategory_page_return(resp)
    \/ process_products_returned
    \/ empty_check
    \/ \E has_products \in BOOLEAN : validate_page_has_products_return(has_products)
    \/ decide
    \/ /\ \E k \in 1..Cardinality(ListedProducts) : process_single_product_start(1, k)
       /\ UNCHANGED <<pureVars, lambdaVars, walkerVars>>
    \/ \E k \in 1..Cardinality(ListedProducts), resp \in FetchedProductResponses :
           listed_product_finish(k, resp)
    \/ batch_gathered(1) /\ UNCHANGED <<pureVars, lambdaVars, walkerVars>>

SpecRelist == Init /\ [][NextRelist]_vars

(***************************************************************************)
(* start_crawling over a category whose listing pages show no product:     *)
(* every subcategory of WOMAN, each with the page ceiling it passes.       *)
(***************************************************************************)
StartCrawlingMaxPages == 3

NextCrawl ==
    \/ process_subcategory_with_pagination(Len(SubcategoryNames), StartCrawlingMaxPages)
    \/ loop_head
    \/ \E resp \in ListingResponses(walk.url.path.id, {}) : parse_subcategory_page_return(resp)
    \/ empty_check
    \/ \E has_products \in BOOLEAN : validate_page_has_products_return(has_products)
    \/ decide

SpecCrawl == Init /\ [][NextCrawl]_vars

(***************************************************************************)
(* The worker's mapping of an extracted record to a row of the store.      *)
(* The price is carried like the description and is left out.             *)
(***************************************************************************)
Rapsodia == "Rapsodia"

(* infer_category_from_url: a product URL has neither /woman/ nor /girls/; *)
(* a listing URL is /woman/<slug>.html.                                    *)
infer_category_from_url(url) ==
    IF url.path.kind = "listing"
    THEN LET slug == IF url.path.id \in DOMAIN SubcategoryNames
                     THEN SubcategoryNames[url.path.id] ELSE "GENERAL"
         IN <<"WOMAN",
              IF slug = "JEANS" THEN "JEANS"
              ELSE IF slug \in {"CAMISAS_Y_TOPS", "REMERAS"} THEN "CAMISAS_Y_TOPS"
              ELSE IF slug \in {"VESTIDOS", "PANTALONES"} THEN slug
              ELSE "GENERAL">>
    ELSE <<"UNKNOWN", "GENERAL">>

MappedSubcategories ==
    {"JEANS", "PANTALONES", "REMERAS", "CAMISAS_Y_TOPS", "VESTIDOS", "BUZOS_SWEATERS",
     "CAMPERAS_KIMONOS"}

(* get_rapsodia_category_mapping, variant with a default mapping. *)
get_rapsodia_category_mapping_Default(category_name, subcategory_name) ==
    IF category_name = "WOMAN" /\ subcategory_name \in MappedSubcategories
    THEN [category_id |-> "prendas", subcategory_id |-> subcategory_name]
    ELSE [category_id |-> "prendas", subcategory_id |-> "GENERAL"]

(* get_rapsodia_category_mapping, None when there is no mapping. *)
get_rapsodia_category_mapping(category_name, subcategory_name) ==
    IF category_name = "WOMAN" /\ subcategory_name \in MappedSubcategories
    THEN [category_id |-> "prendas", subcategory_id |-> subcategory_name]
    ELSE None

(* normalize_sizes: upper case, empty labels dropped, first occurrences kept. *)
RECURSIVE NormalizeFrom(_, _)
NormalizeFrom(sizes, normalized) ==
    IF sizes = <<>> THEN normalized
    ELSE LET size_str == Upper(Head(sizes))
         IN NormalizeFrom(Tail(sizes),
                          IF size_str # "" /\ ~InSeq(size_str, normalized)
                          THEN Append(normalized, size_str) ELSE normalized)

normalize_sizes(sizes) == NormalizeFrom(sizes, <<>>)

(* normalized_data of process_product_url. *)
normalized_data(product_data) ==
    [name |-> product_data["nombre_producto"],
     description |-> product_data["description"],
     sizes |-> product_data["talles_todos"],
     available_sizes |-> product_data["talles_disponibles"],
     availability |-> product_data["availability"],
     image_urls |-> product_data["image_urls"],
     colors |-> product_data["colors"]]

(* item_data of process_product_url. *)
item_data(normalized, brand_id, category_mapping) ==
    LET mapping == IF category_mapping = None
                   THEN [category_id |-> "NULL", subcategory_id |-> "NULL"]
                   ELSE category_mapping
    IN [name |-> normalized.name,
        description |-> normalized.description,
        brand_id |-> brand_id,
        category_id |-> mapping.category_id,
        subcategory_id |-> mapping.subcategory_id,
        sizes |-> normalize_sizes(normalized.sizes),
        sizes_available |-> normalize_sizes(normalized.available_sizes),
        available |-> normalized.availability]

(* The item_data the worker builds for `url` when its crawl gives `resp`, *)
(* None when the extraction gives no record.                               *)
ItemDataOf(url, resp, brand_id) ==
    LET inferred == infer_category_from_url(url)
        product_data == extract_product_details(url, inferred[1], inferred[2], resp)
    IN IF product_data = None THEN None
       ELSE item_data(normalized_data(product_data), brand_id,
                      get_rapsodia_category_mapping(inferred[1], inferred[2]))

(***************************************************************************)
(* The store: SupabaseClient over the tables items, item_images and        *)
(* item_x_item_colors.  Every operation is one transaction.                *)
(***************************************************************************)
BrandIds == {"brand-1", "brand-2"}

(* WHERE name = %s AND brand_id = %s *)
MatchesKey_Available(row, d) ==
    row.name = d.name /\ row.brand_id = d.brand_id /\ row.available = d.available

MatchesKey(row, d) == row.name = d.name /\ row.brand_id = d.brand_id

(* The rows the SELECT of upsert_item finds. *)
Lookup(rows, d) == {i \in DOMAIN rows : MatchesKey(rows[i], d)}

(* cur.fetchone(): one of the rows found, 0 for no row. *)
Fetchone(found) == IF found = {} THEN {0} ELSE found

(* The UPDATE of upsert_item, variant that keeps the stored availability. *)
UpdateItem_KeepAvailable(row, d) ==
    [row EXCEPT !.description = d.description,
                !.sizes = d.sizes,
                !.sizes_available = d.sizes_available]

(* The UPDATE of upsert_item. *)
UpdateItem(row, d) ==
    [row EXCEPT !.description = d.description,
                !.sizes = d.sizes,
                !.sizes_available = d.sizes_available,
                !.available = d.available]

(* The INSERT of upsert_item. *)
NewItem(d) ==
    [name |-> d.name, description |-> d.description, brand_id |-> d.brand_id,
     main_category_id |-> d.category_id, subcategory_id |-> d.subcategory_id,
     sizes |-> d.sizes, sizes_available |-> d.sizes_available, available |-> d.available]

(* The table after upsert_item found `existing`. *)
UpsertItem(rows, d, existing) ==
    IF existing = 0 THEN Append(rows, NewItem(d))
    ELSE [rows EXCEPT ![existing] = UpdateItem(@, d)]

(* The item_id upsert_item returns. *)
UpsertReturn(rows, existing) == IF existing = 0 THEN Len(rows) + 1 ELSE existing

(* The changes upsert_item logs. *)
UpsertLog(rows, d, existing) ==
    IF existing = 0 THEN {}
    ELSE (IF rows[existing].available /\ ~d.available
               THEN {[msg |-> "is now unavailable", item_id |-> existing]} ELSE {})
         \cup (IF rows[existing].sizes_available # d.sizes_available
               THEN {[msg |-> "sizes changed", item_id |-> existing]} ELSE {})

(* upsert_item(item_data); max_items caps the size of the table. *)
upsert_item(d, max_items) ==
    /\ \E existing \in Fetchone(Lookup(items, d)) :
          /\ existing = 0 => Len(items) < max_items
          /\ items' = UpsertItem(items, d, existing)
          /\ store_log' = UpsertLog(items, d, existing)
    /\ UNCHANGED <<item_images, item_x_item_colors>>

(* The rows upsert_item_images inserts: the first image is the primary. *)
ImageRows(item_id, image_urls) ==
    {[item_id |-> item_id, url |-> image_urls[i], is_primary |-> (i = 1)] : i \in DOMAIN image_urls}

(* The table item_images after upsert_item_images: untouched for an      *)
(* empty list, else the images of the item deleted and the given ones      *)
(* inserted.                                                               *)
ReplaceImages(rows, item_id, image_urls) ==
    IF image_urls = <<>> THEN rows
    ELSE {r \in rows : r.item_id # item_id} \cup ImageRows(item_id, image_urls)

upsert_item_images(item_id, image_urls) ==
    /\ item_images' = ReplaceImages(item_images, item_id, image_urls)
    /\ store_log' = {}
    /\ UNCHANGED <<items, item_x_item_colors>>

(* The rows link_item_colors inserts, a repeated color once. *)
ColorRows(item_id, color_ids) ==
    {[item_id |-> item_id, color_id |-> color_ids[i]] : i \in DOMAIN color_ids}

(* The table item_x_item_colors after link_item_colors: untouched for an  *)
(* empty list, else the links of the item deleted and the given ones        *)
(* inserted.                                                               *)
ReplaceColors(rows, item_id, color_ids) ==
    IF color_ids = <<>> THEN rows
    ELSE {r \in rows : r.item_id # item_id} \cup ColorRows(item_id, color_ids)

link_item_colors(item_id, color_ids) ==
    /\ item_x_item_colors' = ReplaceColors(item_x_item_colors, item_id, color_ids)
    /\ store_log' = {}
    /\ UNCHANGED <<items, item_images>>

(* mark_missing_items_unavailable: the list of items to mark is never     *)
(* filled, so no row is changed.                                           *)
mark_missing_items_unavailable(brand_id, found_skus) ==
    /\ store_log' = {}
    /\ UNCHANGED <<items, item_images, item_x_item_colors>>

(* Variant: the rows are removed. *)
MarkUnavailable_Delete(rows, ids) ==
    LET RECURSIVE Keep(_)
        Keep(i) == IF i > Len(rows) THEN <<>>
                   ELSE (IF i \in ids THEN <<>> ELSE <<rows[i]>>) \o Keep(i + 1)
    IN Keep(1)

(* UPDATE items SET available = false WHERE item_id = ANY(ids) *)
MarkUnavailable(rows, ids) ==
    [i \in DOMAIN rows |-> IF i \in ids THEN [rows[i] EXCEPT !.available = FALSE] ELSE rows[i]]

(* existing_items of sync_product_availability: the item of the brand     *)
(* under each name (one row per name and brand).                           *)
ExistingNames(rows, brand_id) == {rows[i].name : i \in {j \in DOMAIN rows : rows[j].brand_id = brand_id}}

ExistingItem(rows, brand_id, name) ==
    CHOOSE i \in DOMAIN rows : rows[i].brand_id = brand_id /\ rows[i].name = name
                               /\ \A j \in DOMAIN rows :
                                     rows[j].brand_id = brand_id /\ rows[j].name = name => j <= i

(* found_names: the names of the records that have one. *)
FoundNames(product_data_list) ==
    {product_data_list[i].name : i \in {j \in DOMAIN product_data_list : product_data_list[j].name # ""}}

(* The items of the brand that are available and were not found. *)
ItemsToMarkUnavailable(rows, brand_id, product_data_list) ==
    {i \in DOMAIN rows : /\ rows[i].brand_id = brand_id
                         /\ i = ExistingItem(rows, brand_id, rows[i].name)
                         /\ rows[i].name \notin FoundNames(product_data_list)
                         /\ rows[i].available}

(* The loop over the found products: each record with a name that exists  *)
(* writes its availability and available sizes to the item.                *)
RECURSIVE UpdateFound(_, _, _, _)
UpdateFound(rows, existing_rows, brand_id, product_data_list) ==
    IF product_data_list = <<>> THEN rows
    ELSE LET product_data == Head(product_data_list)
             name == product_data.name
         IN IF name = "" \/ name \notin ExistingNames(existing_rows, brand_id)
            THEN UpdateFound(rows, existing_rows, brand_id, Tail(product_data_list))
            ELSE UpdateFound([rows EXCEPT ![ExistingItem(existing_rows, brand_id, name)] =
                                 [@ EXCEPT !.available = product_data.available,
                                           !.sizes_available = product_data.sizes_available]],
                             existing_rows, brand_id, Tail(product_data_list))

(* The table after sync_product_availability. *)
SyncProductAvailability(rows, brand_id, product_data_list) ==
    UpdateFound(MarkUnavailable(rows, ItemsToMarkUnavailable(rows, brand_id, product_data_list)),
                rows, brand_id, product_data_list)

(* The changes sync_product_availability logs. *)
SyncLog(rows, brand_id, product_data_list) ==
    {[msg |-> "Marked unavailable", item_id |-> i] :
            i \in ItemsToMarkUnavailable(rows, brand_id, product_data_list)}
    \cup {[msg |-> "availability changed",
           item_id |-> ExistingItem(rows, brand_id, product_data_list[k].name)] :
            k \in {j \in DOMAIN product_data_list :
                     /\ product_data_list[j].name # ""
                     /\ product_data_list[j].name \in ExistingNames(rows, brand_id)
                     /\ rows[ExistingItem(rows, brand_id, product_data_list[j].name)].available
                          # product_data_list[j].available}}

sync_product_availability(brand_id, product_data_list) ==
    /\ items' = SyncProductAvailability(items, brand_id, product_data_list)
    /\ store_log' = SyncLog(items, brand_id, product_data_list)
    /\ UNCHANGED <<item_images, item_x_item_colors>>

(***************************************************************************)
(* The store under calls made one after another.                           *)
(***************************************************************************)
(* The pages behind the records given to the store. *)
StorePages == Pages(Names, {"D"}, {"none", "in", "out"}, OneSize, {<<>>}, {<<>>})

(* The first brand has a product with a name and one without, the second *)
(* brand a product with the same name.                                     *)
ItemDatas ==
    {d \in {ItemDataOf(ProductURL(1), resp, b) : resp \in StorePages, b \in BrandIds} \ {None} :
        d.brand_id = "brand-1" \/ d.name # ""}

ImageLists == {<<>>, <<"a.jpg">>}

ColorLists == {<<>>, <<"NEGRO">>}

(* The records of a reconciliation: a name, which may be missing, the     *)
(* availability and the available sizes.                                   *)
ObservedRecords == [name : Names, available : BOOLEAN, sizes_available : {<<>>, <<"S">>}]

ObservedLists == {<<>>} \cup {<<r>> : r \in ObservedRecords}

(* The operations on the table items. *)
ItemOperations(item_datas) ==
    \/ \E d \in item_datas : upsert_item(d, MaxItems)
    \/ \E b \in BrandIds, product_data_list \in ObservedLists :
          sync_product_availability(b, product_data_list)
    \/ \E b \in BrandIds : mark_missing_items_unavailable(b, {})

(* The operations on the tables that depend on an item. *)
DependentOperations ==
    \/ \E item_id \in DOMAIN items, image_urls \in ImageLists :
          upsert_item_images(item_id, image_urls)
    \/ \E item_id \in DOMAIN items, color_ids \in ColorLists :
          link_item_colors(item_id, color_ids)

NextStore ==
    /\ ItemOperations(ItemDatas)
    /\ UNCHANGED <<extractorVars, pureVars, walkerVars, worker, discover>>

SpecStore == Init /\ [][NextStore]_vars

(* Every operation of the store, over the products of one brand. *)
NextTables ==
    /\ ItemOperations({d \in ItemDatas : d.brand_id = "brand-1"}) \/ DependentOperations
    /\ UNCHANGED <<extractorVars, pureVars, walkerVars, worker, discover>>

SpecTables == Init /\ [][NextTables]_vars

(***************************************************************************)
(* The worker Lambda: lambda_handler takes the records of one queue batch  *)
(* through process_product_url, one after another.                         *)
(***************************************************************************)
(* The body of a queue record: one that is not JSON, one without a url,  *)
(* one for a product of Rapsodia and one for a product of another brand.   *)
RecordBodies ==
    {body \in [valid : BOOLEAN, has_url : BOOLEAN, url : {ProductURL(1)},
               brand : {Rapsodia, "Other"}] :
        /\ body.has_url => body.valid
        /\ body.brand # Rapsodia => body.has_url}

(* Where a call of the store raises while a record is stored. *)
Faults == {"none", "upsert_item_images", "link_item_colors"}

(* The pages the worker's scraper can be given. *)
WorkerPages == Pages({"N"}, {"D"}, {"none", "in"}, OneSize, ColorLists, ImageLists)

WorkerResponses == {r \in FailedResponses : r.kind = "failed"} \cup WorkerPages

(* A result of process_product_url; lambda_handler's own failure result   *)
(* has no url.  The error of a call of the store that raised is the text   *)
(* of its exception.                                                       *)
Result(success, has_url, error) == [success |-> success, has_url |-> has_url, error |-> error]

(* No record synced by the last step. *)
NoSync == [item_id |-> 0, image_urls |-> <<>>, colors |-> <<>>]

(* Variant: a failed record ends the loop. *)
after_record_Abort(result, count, n) == IF result.success THEN n + 1 ELSE count

(* The position in Records after a record: the loop of lambda_handler     *)
(* goes on to the next record whatever the result.                         *)
after_record(result, count, n) == n + 1

(* lambda_handler is invoked with `count` records. *)
lambda_handler(count) ==
    /\ worker.pc \in {"idle", "done"}
    /\ worker' = [pc |-> "loop", count |-> count, n |-> 0, taken |-> 0, results |-> <<>>,
                  synced |-> NoSync, summary |-> None]
    /\ UNCHANGED storeVars

(* The record is counted with `result`. *)
record_fails(result) ==
    /\ worker' = [worker EXCEPT !.n = after_record(result, worker.count, @),
                                !.taken = @ + 1,
                                !.results = Append(@, result),
                                !.synced = NoSync]
    /\ UNCHANGED storeVars

(* json.loads raises. *)
record_body_raises(body) ==
    /\ ~body.valid
    /\ record_fails(Result(FALSE, FALSE, "json"))

(* The message has no url: `continue`. *)
record_without_url(body) ==
    /\ body.valid /\ ~body.has_url
    /\ worker' = [worker EXCEPT !.n = @ + 1, !.taken = @ + 1, !.synced = NoSync]
    /\ UNCHANGED storeVars

(* process_product_url for a brand without a scraper. *)
process_product_url_unknown_brand(body) ==
    /\ body.valid /\ body.has_url /\ body.brand # Rapsodia
    /\ record_fails(Result(FALSE, TRUE, "Unknown brand"))

(* extract_product_details gives no record. *)
process_product_url_no_data(body, resp) ==
    /\ body.valid /\ body.has_url /\ body.brand = Rapsodia
    /\ ItemDataOf(body.url, resp, "brand-1") = None
    /\ record_fails(Result(FALSE, TRUE, "Failed to extract product data"))

(* upsert_item raises: its transaction is rolled back. *)
process_product_url_upsert_raises(body, responses) ==
    /\ body.valid /\ body.has_url /\ body.brand = Rapsodia
    /\ \E resp \in responses : ItemDataOf(body.url, resp, "brand-1") # None
    /\ record_fails(Result(FALSE, TRUE, "exception"))

(* Variant: the DELETE of a call that raises is kept. *)
RolledBack_Deleted(rows, item_id) == {r \in rows : r.item_id # item_id}

(* The table a call of upsert_item_images or link_item_colors leaves when  *)
(* it raises: its DELETE and INSERT run in one transaction, which the       *)
(* connection rolls back when the with block is left by an exception.       *)
RolledBack(rows, item_id) == rows

(* process_product_url upserts the item, then its images when there are   *)
(* some, then its colors when there are some; each call of the store is    *)
(* its own transaction, and one that raises ends the record.               *)
process_product_url_stores(body, resp, fault, max_items) ==
    /\ body.valid /\ body.has_url /\ body.brand = Rapsodia
    /\ LET d == ItemDataOf(body.url, resp, "brand-1")
       IN /\ d # None
          /\ \E existing \in Fetchone(Lookup(items, d)) :
                LET item_id == UpsertReturn(items, existing)
                    image_urls == resp.image_urls
                    colors == resp.colors
                    images_raise == image_urls # <<>> /\ fault = "upsert_item_images"
                    colors_raise == ~images_raise /\ colors # <<>> /\ fault = "link_item_colors"
                    result == IF images_raise \/ colors_raise
                              THEN Result(FALSE, TRUE, "exception") ELSE Result(TRUE, TRUE, "")
                IN /\ existing = 0 => Len(items) < max_items
                   /\ fault = "upsert_item_images" => image_urls # <<>>
                   /\ fault = "link_item_colors" => colors # <<>>
                   /\ items' = UpsertItem(items, d, existing)
                   /\ store_log' = UpsertLog(items, d, existing)
                   /\ item_images' = IF images_raise
                                     THEN RolledBack(item_images, item_id)
                                     ELSE ReplaceImages(item_images, item_id, image_urls)
                   /\ item_x_item_colors' = IF images_raise THEN item_x_item_colors
                                            ELSE IF colors_raise
                                                 THEN RolledBack(item_x_item_colors, item_id)
                                                 ELSE ReplaceColors(item_x_item_colors, item_id,
                                                                    colors)
                   /\ worker' = [worker EXCEPT
                                    !.n = after_record(result, worker.count, @),
                                    !.taken = @ + 1,
                                    !.results = Append(@, result),
                                    !.synced = IF result.success
                                               THEN [item_id |-> item_id, image_urls |-> image_urls,
                                                     colors |-> colors]
                                               ELSE NoSync]

(* The summary lambda_handler returns. *)
Successful(results) == Cardinality({i \in DOMAIN results : results[i].success})

Summary(results) ==
    [processed |-> Len(results),
     successful |-> Successful(results),
     failed |-> Len(results) - Successful(results)]

lambda_handler_return ==
    /\ worker.pc = "loop"
    /\ worker.n >= worker.count
    /\ worker' = [worker EXCEPT !.pc = "done", !.summary = Summary(worker.results)]
    /\ UNCHANGED storeVars

WorkerNext(responses, max_records) ==
    \/ \E count \in 0..max_records : lambda_handler(count)
    \/ /\ worker.pc = "loop"
       /\ worker.n < worker.count
       /\ \E body \in RecordBodies :
             \/ record_body_raises(body)
             \/ record_without_url(body)
             \/ process_product_url_unknown_brand(body)
             \/ process_product_url_upsert_raises(body, responses)
             \/ \E resp \in responses :
                   \/ process_product_url_no_data(body, resp)
                   \/ \E fault \in Faults :
                         process_product_url_stores(body, resp, fault, MaxItems)
    \/ lambda_handler_return

NextWorker ==
    /\ WorkerNext(WorkerResponses, MaxRecords)
    /\ UNCHANGED <<extractorVars, pureVars, walkerVars, discover>>

SpecWorker == Init /\ [][NextWorker]_vars

(***************************************************************************)
(* The orchestrator Lambda: discover_and_enqueue walks the categories,     *)
(* collects the product URLs and sends them to the queue in batches.       *)
(***************************************************************************)
SqsBatchSize == 10

DiscoverPageLimit == 3

(* What parse_subcategory_page gives for a listing page: it raises (the   *)
(* bookkeeping before its try block fails), or it returns `products` new   *)
(* products and a next page or none.  A crawl that fails returns no        *)
(* product and no next page.                                               *)
PageOutcomes(page_products) ==
    [raises : {TRUE}, products : {0}, next_page : {FALSE}]
    \cup [raises : {FALSE}, products : {0, page_products}, next_page : BOOLEAN]

(* The products of a page are new to self.product_urls: the URLs after    *)
(* those already collected.                                                *)
NewProducts(all_product_urls, products) ==
    [k \in 1..products |-> ProductURL(Len(all_product_urls) + k)]

(* discover_and_enqueue is called with `count` category URLs. *)
discover_and_enqueue(count) ==
    /\ discover.pc \in {"idle", "done"}
    /\ discover' = [pc |-> "category", count |-> count, walked |-> 0, page_count |-> 0,
                    all_product_urls |-> <<>>, i |-> 0, batches |-> <<>>, total_urls |-> 0]

(* The first page of the next category. *)
category_first_page(outcome) ==
    /\ discover.pc = "category"
    /\ discover.walked < discover.count
    /\ IF outcome.raises
       THEN discover' = [discover EXCEPT
                            !.walked = @ + 1]
       ELSE discover' = [discover EXCEPT
                            !.all_product_urls = @ \o NewProducts(@, outcome.products),
                            !.page_count = 1,
                            !.pc = IF outcome.next_page /\ 1 < DiscoverPageLimit
                                   THEN "page" ELSE "category",
                            !.walked = IF outcome.next_page /\ 1 < DiscoverPageLimit
                                       THEN @ ELSE @ + 1]

(* A following page of the category: while next_page and page_count < 3. *)
category_next_page(outcome) ==
    /\ discover.pc = "page"
    /\ IF outcome.raises
       THEN discover' = [discover EXCEPT
                            !.page_count = @ + 1,
                            !.pc = "category",
                            !.walked = @ + 1]
       ELSE LET again == outcome.next_page /\ discover.page_count + 1 < DiscoverPageLimit
            IN discover' = [discover EXCEPT
                               !.all_product_urls = @ \o NewProducts(@, outcome.products),
                               !.page_count = @ + 1,
                               !.pc = IF again THEN "page" ELSE "category",
                               !.walked = IF again THEN @
                                          ELSE @ + 1]

(* Variant: the slice runs one element into the next batch. *)
Batch_Overlap(all_product_urls, i) ==
    SubSeq(all_product_urls, i + 1, Min(i + SqsBatchSize + 1, Len(all_product_urls)))

(* batch = all_product_urls[i:i + batch_size] *)
Batch(all_product_urls, i) ==
    SubSeq(all_product_urls, i + 1, Min(i + SqsBatchSize, Len(all_product_urls)))

(* The entries of the batch that starts at i: Id is str(i + idx). *)
Entries(all_product_urls, i) ==
    LET batch == Batch(all_product_urls, i)
    IN [idx \in 1..Len(batch) |->
           [Id |-> ToString(i + idx - 1),
            MessageBody |-> [url |-> batch[idx], brand |-> Rapsodia]]]

(* The categories are walked: the loop over the batches starts. *)
categories_walked ==
    /\ discover.pc = "category"
    /\ discover.walked >= discover.count
    /\ discover' = [discover EXCEPT !.pc = "publish", !.i = 0]

(* sqs.send_message_batch for the batch at i: accepted, or it raises. *)
send_message_batch(accepted) ==
    /\ discover.pc = "publish"
    /\ discover.i < Len(discover.all_product_urls)
    /\ discover' = [discover EXCEPT
                       !.batches = Append(@, [Entries |-> Entries(discover.all_product_urls, discover.i),
                                              accepted |-> accepted]),
                       !.i = @ + SqsBatchSize]

discover_and_enqueue_return ==
    /\ discover.pc = "publish"
    /\ discover.i >= Len(discover.all_product_urls)
    /\ discover' = [discover EXCEPT !.pc = "done", !.total_urls = Len(discover.all_product_urls)]

DiscoverNext(max_categories, page_products) ==
    \/ \E count \in 0..max_categories : discover_and_enqueue(count)
    \/ \E outcome \in PageOutcomes(page_products) :
          category_first_page(outcome) \/ category_next_page(outcome)
    \/ categories_walked
    \/ \E accepted \in BOOLEAN : send_message_batch(accepted)
    \/ discover_and_enqueue_return

NextDiscover ==
    /\ DiscoverNext(MaxCategories, MaxPageProducts)
    /\ UNCHANGED <<extractorVars, pureVars, walkerVars, storeVars, worker>>

SpecDiscover == Init /\ [][NextDiscover]_vars

(***************************************************************************)
(* The two Lambdas.  Each is a function of its own, run in a container of  *)
(* its own: a behaviour is the life of one container, which serves either  *)
(* worker invocations or orchestrator invocations.                         *)
(***************************************************************************)
NextLambdas ==
    \/ /\ discover = IdleDiscover
       /\ WorkerNext(WorkerResponses, MaxRecords)
       /\ UNCHANGED <<extractorVars, pureVars, walkerVars, discover>>
    \/ /\ worker = IdleWorker
       /\ DiscoverNext(MaxCategories, MaxPageProducts)
       /\ UNCHANGED <<extractorVars, pureVars, walkerVars, storeVars, worker>>

SpecLambdas == Init /\ [][NextLambdas]_vars

(***************************************************************************)
(* SIGINT: signal_handler sets self.interrupted, calls save_all_data and   *)
(* exits.                                                                  *)
(***************************************************************************)
(* The products of a list that validate_product_data accepts. *)
ValidProducts(products) == SelectSeq(products, validate_product_data)

(* total_valid_products of save_all_data. *)
RECURSIVE TotalLen(_, _)
TotalLen(lists, keys) ==
    IF keys = {} THEN 0
    ELSE LET k == CHOOSE x \in keys : TRUE
         IN Len(lists[k]) + TotalLen(lists, keys \ {k})

total_valid_products ==
    TotalLen([k \in Keys |-> ValidProducts(products_by_category[k])], Keys)

(* save_all_data: nothing is written when no valid product is stored;     *)
(* else the statistics (with product_urls and category_progress) and the   *)
(* valid products of every category are written.                           *)
save_all_data ==
    IF total_valid_products = 0
    THEN output
    ELSE [output EXCEPT !.written = TRUE,
                        !.product_urls = product_urls,
                        !.category_progress = category_progress,
                        !.products_by_category =
                            [k \in Keys |-> ValidProducts(products_by_category[k])]]

signal_handler ==
    /\ ~output.exited
    /\ output' = [save_all_data EXCEPT !.exited = TRUE]
    /\ UNCHANGED <<extractorVars, resolver, detector, crawl, extraction, classified, parsed, txn, pagination, walkerVars, lambdaVars>>

(* The walker until the operator interrupts it. *)
NextInterrupt ==
    \/ ~output.exited /\ NextWalk
    \/ signal_handler

SpecInterrupt == Init /\ [][NextInterrupt]_vars

(***************************************************************************)
(* safe_crawl_page: the page fetch with retries, of RapsodiaSafeScraper    *)
(* and of BaseScraper.                                                     *)
(***************************************************************************)
MaxRetries == 3

RetryDelay == 2

Scrapers == {"RapsodiaSafeScraper", "BaseScraper"}

(* What an attempt can give: a successful result, a result that is not    *)
(* successful (for BaseScraper also one without html), a timeout or        *)
(* another exception.                                                      *)
AttemptOutcomes == {"success", "failed", "timeout", "exception"}

(* safe_crawl_page(url): RapsodiaSafeScraper returns a failure at once    *)
(* for a URL that validate_url rejects, BaseScraper does not look at it.   *)
safe_crawl_page(impl, url) ==
    /\ crawl.pc \in {"idle", "returned"}
    /\ IF impl = "RapsodiaSafeScraper" /\ ~validate_url(url)
       THEN crawl' = [NoCrawl EXCEPT !.impl = impl, !.url = url, !.pc = "returned",
                                     !.result = "failure"]
       ELSE crawl' = [NoCrawl EXCEPT !.impl = impl, !.url = url, !.pc = "attempting",
                                     !.attempt = 1]

(* Whether the failed attempt is followed by a pause: not after the last  *)
(* attempt, and in BaseScraper only after an exception.                    *)
pauses_after(impl, outcome, attempt) ==
    /\ attempt < MaxRetries
    /\ impl = "BaseScraper" => outcome \in {"timeout", "exception"}

(* The attempt of crawler.arun is over. *)
arun_returns(outcome) ==
    /\ crawl.pc = "attempting"
    /\ crawl' =
         IF outcome = "success"
         THEN [crawl EXCEPT !.outcomes = Append(@, outcome), !.pc = "returned",
                            !.result = "success"]
         ELSE IF pauses_after(crawl.impl, outcome, crawl.attempt)
         THEN [crawl EXCEPT !.outcomes = Append(@, outcome), !.pc = "sleeping"]
         ELSE IF crawl.attempt < MaxRetries
         THEN [crawl EXCEPT !.outcomes = Append(@, outcome), !.attempt = @ + 1]
         ELSE [crawl EXCEPT !.outcomes = Append(@, outcome), !.pc = "returned",
                            !.result = "failure"]

(* asyncio.sleep(retry_delay * attempt) is over: the next attempt. *)
sleep_returns ==
    /\ crawl.pc = "sleeping"
    /\ crawl' = [crawl EXCEPT !.pauses = Append(@, RetryDelay * crawl.attempt),
                              !.attempt = @ + 1,
                              !.pc = "attempting"]

NextFetch ==
    /\ \/ \E impl \in Scrapers, url \in {ProductURL(1), EmptyURL} : safe_crawl_page(impl, url)
       \/ \E outcome \in AttemptOutcomes : arun_returns(outcome)
       \/ sleep_returns
    /\ UNCHANGED <<extractorVars, resolver, detector, output, extraction, classified, parsed, txn, pagination, walkerVars, lambdaVars>>

(* An attempt ends (RapsodiaSafeScraper bounds it by timeout_seconds) and  *)
(* so does a pause.                                                        *)
SpecFetch == Init /\ [][NextFetch]_vars /\ WF_vars(NextFetch)

(***************************************************************************)
(* One product page through extract_product_details and through the       *)
(* normalisation of process_product_url.                                   *)
(***************************************************************************)
(* The sequences of at most n size elements. *)
TallesRaw(n) == UNION {[1..k -> SizeElements] : k \in 0..n}

ExtractResponses(max_size_elements) ==
    FailedResponses
    \cup Pages(Names, Descriptions, {"none", "in"}, TallesRaw(max_size_elements), {<<>>}, {<<>>})

ExtractURLs == {EmptyURL, ProductURL(1)}

(* extract_product_details(url, category_name, subcategory_name) as the   *)
(* worker calls it, the crawl giving `resp`.                               *)
extract_product_details_call(url, resp) ==
    LET inferred == infer_category_from_url(url) IN
    /\ extraction.pc = "idle"
    /\ extraction' = [extraction EXCEPT
                         !.pc = "extracted",
                         !.url = url,
                         !.resp = resp,
                         !.product_info = extract_product_details(url, inferred[1], inferred[2],
                                                                  resp)]
    /\ UNCHANGED <<extractorVars, resolver, detector, crawl, output, classified, parsed, txn, pagination,
                   walkerVars, lambdaVars>>

(* normalized_data and item_data of process_product_url for the record    *)
(* the extraction returned.                                                *)
process_product_url_item_data(brand_id) ==
    /\ extraction.pc = "extracted"
    /\ extraction.product_info # None
    /\ extraction' = [extraction EXCEPT
                         !.pc = "normalized",
                         !.item = ItemDataOf(extraction.url, extraction.resp, brand_id)]
    /\ UNCHANGED <<extractorVars, resolver, detector, crawl, output, classified, parsed, txn, pagination,
                   walkerVars, lambdaVars>>

NextExtract ==
    \/ \E url \in ExtractURLs, resp \in ExtractResponses(MaxSizeElements) :
           extract_product_details_call(url, resp)
    \/ process_product_url_item_data("brand-1")

SpecExtract == Init /\ [][NextExtract]_vars

(***************************************************************************)
(* Calls of is_product_url.                                                *)
(***************************************************************************)
(* Product pages, listing pages and pages of neither kind, with and       *)
(* without a query.                                                        *)
ClassifyURLs ==
    {EmptyURL}
    \cup {MkURL(scheme, RapsodiaHost, path, q) :
             scheme \in {"http", "https"},
             path \in {MkPath(kind, i) : kind \in {"product", "listing", "static"},
                                         i \in 1..NumProducts},
             q \in ResolverQueries \cup {<<Param("cat", 1)>>}}

(* A call of is_product_url; the calls of a behaviour are on one URL. *)
is_product_url_call(url) ==
    /\ Len(classified.results) < MaxCalls
    /\ classified.results # <<>> => url = classified.url
    /\ classified' = [url |-> url, results |-> Append(classified.results, is_product_url(url))]
    /\ UNCHANGED <<extractorVars, resolver, detector, crawl, output, extraction, parsed, txn, pagination,
                   walkerVars, lambdaVars>>

NextClassify == \E url \in ClassifyURLs : is_product_url_call(url)

SpecClassify == Init /\ [][NextClassify]_vars

(***************************************************************************)
(* The product links of listing pages: parse_category_page and            *)
(* parse_subcategory_page of one scraper over a sequence of pages.         *)
(***************************************************************************)
Range(seq) == {seq[i] : i \in DOMAIN seq}

(* The links a listing page shows: products and a listing. *)
LinkURLs == {ProductURL(1), ProductURL(2), ListingURL(1, <<>>)}

(* The links of the product grid, at most n. *)
GridLinks(n) == UNION {[1..k -> LinkURLs] : k \in 0..n}

(* The links the generic selectors find; normalize_url gives nothing for  *)
(* the empty one.                                                          *)
GenericLinks == {<<>>} \cup {<<u>> : u \in LinkURLs \cup {EmptyURL}}

Parsers == {"parse_category_page", "parse_subcategory_page"}

(* One link of a page, variant that does not look the URL up in           *)
(* self.product_urls.                                                      *)
product_link_Relisted(products, seen, full_url) ==
    IF full_url # EmptyURL /\ is_product_url(full_url)
    THEN Append(products, full_url)
    ELSE products

(* One link of a page: appended to products when it is not in             *)
(* self.product_urls, which holds `seen` and the products appended before  *)
(* it, and is_product_url accepts it.                                      *)
product_link(products, seen, full_url) ==
    IF full_url # EmptyURL /\ full_url \notin seen \cup Range(products) /\ is_product_url(full_url)
    THEN Append(products, full_url)
    ELSE products

RECURSIVE ProductLinks(_, _, _)
ProductLinks(links, seen, products) ==
    IF links = <<>> THEN products
    ELSE ProductLinks(Tail(links), seen, product_link(products, seen, Head(links)))

(* products of a page: the links of the product grid, and those of the    *)
(* generic selectors when the grid gave none.                              *)
PageProducts(page, seen) ==
    LET products == ProductLinks(page.grid, seen, <<>>)
    IN IF products = <<>> THEN ProductLinks(page.generic, seen, <<>>) ELSE products

(* A page is parsed: its new product URLs enter self.product_urls and are *)
(* returned, unless a later step of the parser raises and the except       *)
(* branch returns no product.                                              *)
parse_page(page, max_pages) ==
    LET products == PageProducts(page, product_urls) IN
    /\ Len(parsed.results) < max_pages
    /\ product_urls' = product_urls \cup Range(products)
    /\ parsed' = [results |-> Append(parsed.results, IF page.raises THEN <<>> ELSE products),
                  grid |-> page.grid]
    /\ UNCHANGED <<extractorVars, resolver, detector, crawl, output, extraction, classified, txn, pagination,
                   visited_urls_per_category, new_products_found, consecutive_empty_pages,
                   category_progress, walk, seeds_started, lambdaVars>>

NextListing ==
    \E page \in [parser : Parsers, grid : GridLinks(MaxProductLinks), generic : GenericLinks,
                  raises : BOOLEAN] :
        parse_page(page, MaxPagesBound)

SpecListing == Init /\ [][NextListing]_vars

(***************************************************************************)
(* discover_and_enqueue over listing pages: the orchestrator hands the     *)
(* category URLs of its event to a scraper of its own and follows the next  *)
(* page each page names.                                                   *)
(***************************************************************************)
(* The category URLs of an event: the same listing, named up to           *)
(* max_categories times.  Every category URL is walked under "WOMAN", so    *)
(* the scraper keeps one set of counters whatever the URLs are.            *)
CategoryURLLists(max_categories) == {[i \in 1..k |-> Seed(1)] : k \in 0..max_categories}

(* The products the listing pages of the categories show. *)
DiscoveredProducts == {ProductURL(1), ProductURL(2)}

(* The product grid of a page: some of the products, in any order, a       *)
(* product possibly more than once.                                        *)
DiscoveredGrids == UNION {[1..k -> DiscoveredProducts] : k \in 0..Cardinality(DiscoveredProducts)}

(* The pagination markup of a page of listing i: none, a link to the       *)
(* first page or a link to the second, so that two pages can name each      *)
(* other.                                                                  *)
DiscoveredHrefs(i) == {<<>>, <<Seed(i)>>, <<ListingURL(i, <<Param("p", 2)>>)>>}

(* What the fetch of the listing page at `url` can give; the marks of      *)
(* JavaScript pagination count on a page without pagination markup.        *)
DiscoveredPages(url) ==
    [kind : {"failed", "nohtml", "raise"}, grid : {<<>>}, generic : {<<>>}, hrefs : {<<>>},
     js : {FALSE}]
    \cup [kind : {"html"}, grid : DiscoveredGrids, generic : {<<>>},
          hrefs : DiscoveredHrefs(url.path.id), js : {FALSE}]
    \cup [kind : {"html"}, grid : DiscoveredGrids, generic : {<<>>}, hrefs : {<<>>},
          js : {TRUE}]

(* Variant: the links of a page are not looked up in self.product_urls. *)
ParsedPage_Unseen(url, resp, seen) ==
    IF ~validate_url(url) \/ resp.kind \in {"failed", "raise"}
    THEN [products |-> <<>>, next_page |-> EmptyURL, counted |-> FALSE]
    ELSE IF resp.kind = "nohtml"
         THEN [products |-> <<>>, next_page |-> EmptyURL, counted |-> TRUE]
         ELSE [products |-> PageProducts(resp, {}), next_page |-> NextPageOf(resp, url),
               counted |-> TRUE]

(* What parse_subcategory_page returns and whether it reaches its progress *)
(* tracking.  safe_crawl_page refuses a URL that validate_url rejects, and  *)
(* a crawl that fails or raises returns no product and no next page.       *)
ParsedPage(url, resp, seen) ==
    IF ~validate_url(url) \/ resp.kind \in {"failed", "raise"}
    THEN [products |-> <<>>, next_page |-> EmptyURL, counted |-> FALSE]
    ELSE IF resp.kind = "nohtml"
         THEN [products |-> <<>>, next_page |-> EmptyURL, counted |-> TRUE]
         ELSE [products |-> PageProducts(resp, seen), next_page |-> NextPageOf(resp, url),
               counted |-> TRUE]

(* parse_subcategory_page on the scraper: the URL is marked visited, the   *)
(* new products enter self.product_urls and the counters of the category   *)
(* follow the page.                                                        *)
parse_subcategory_page_call(url, category_name, resp) ==
    LET page == ParsedPage(url, resp, product_urls)
        new_products_in_page == Len(page.products)
    IN /\ visited_urls_per_category' =
            [visited_urls_per_category EXCEPT ![category_name] = @ \cup {url}]
       /\ product_urls' = product_urls \cup Range(page.products)
       /\ consecutive_empty_pages' =
            IF ~page.counted THEN consecutive_empty_pages
            ELSE IF new_products_in_page = 0
                 THEN [consecutive_empty_pages EXCEPT ![category_name] = @ + 1]
                 ELSE [consecutive_empty_pages EXCEPT ![category_name] = 0]
       /\ new_products_found' =
            IF page.counted /\ new_products_in_page # 0
            THEN [new_products_found EXCEPT ![category_name] = @ + new_products_in_page]
            ELSE new_products_found

(* Variant: the loop runs while page_count is at most the limit. *)
more_pages_Inclusive(next_page, page_count) ==
    next_page # EmptyURL /\ page_count <= DiscoverPageLimit

(* while next_page and page_count < 3 *)
more_pages(next_page, page_count) ==
    next_page # EmptyURL /\ page_count < DiscoverPageLimit

(* lambda_handler: a scraper is made and discover_and_enqueue is called    *)
(* with the category URLs.                                                 *)
discover_category_urls(category_urls) ==
    /\ discover = IdleDiscover
    /\ discover' = [IdleDiscover EXCEPT !.pc = "category", !.count = Len(category_urls)]
    /\ pagination' = [category_urls |-> category_urls, next_page |-> EmptyURL,
                      fetched |-> [k \in DOMAIN category_urls |-> 0]]
    /\ UNCHANGED progressVars

(* The first page of the next category URL. *)
first_listing_page ==
    /\ discover.pc = "category"
    /\ discover.walked < discover.count
    /\ LET k == discover.walked + 1
           url == pagination.category_urls[k]
       IN \E resp \in DiscoveredPages(url) :
            LET page == ParsedPage(url, resp, product_urls)
                again == more_pages(page.next_page, 1)
            IN /\ parse_subcategory_page_call(url, "WOMAN", resp)
               /\ discover' = [discover EXCEPT
                                  !.all_product_urls = @ \o page.products,
                                  !.page_count = 1,
                                  !.pc = IF again THEN "page" ELSE "category",
                                  !.walked = IF again THEN @ ELSE @ + 1]
               /\ pagination' = [pagination EXCEPT
                                    !.next_page = page.next_page,
                                    !.fetched[k] = IF validate_url(url) THEN @ + 1 ELSE @]
    /\ UNCHANGED category_progress

(* A following page of the category URL. *)
next_listing_page ==
    /\ discover.pc = "page"
    /\ LET k == discover.walked + 1
           url == pagination.next_page
       IN \E resp \in DiscoveredPages(url) :
            LET page == ParsedPage(url, resp, product_urls)
                again == more_pages(page.next_page, discover.page_count + 1)
            IN /\ parse_subcategory_page_call(url, "WOMAN", resp)
               /\ discover' = [discover EXCEPT
                                  !.all_product_urls = @ \o page.products,
                                  !.page_count = @ + 1,
                                  !.pc = IF again THEN "page" ELSE "category",
                                  !.walked = IF again THEN @ ELSE @ + 1]
               /\ pagination' = [pagination EXCEPT
                                    !.next_page = page.next_page,
                                    !.fetched[k] = IF validate_url(url) THEN @ + 1 ELSE @]
    /\ UNCHANGED category_progress

NextPagination ==
    /\ \/ \E category_urls \in CategoryURLLists(MaxCategories) :
             discover_category_urls(category_urls)
       \/ first_listing_page
       \/ next_listing_page
       \/ /\ \/ categories_walked
             \/ \E accepted \in BOOLEAN : send_message_batch(accepted)
             \/ discover_and_enqueue_return
          /\ UNCHANGED <<pagination, progressVars>>
    /\ UNCHANGED <<extractorVars, resolver, detector, crawl, output, extraction, classified,
                   parsed, txn, walk, seeds_started, storeVars, worker>>

(* Every crawl returns and every publish returns or raises, so the run     *)
(* keeps taking steps.                                                     *)
SpecPagination == Init /\ [][NextPagination]_vars /\ WF_vars(NextPagination)

(***************************************************************************)
(* The pages a walker processes for one category, over many calls of       *)
(* process_subcategory_with_pagination: each turn of its loop tests         *)
(* is_category_complete, parses the page and counts it in pages_processed.  *)
(* The products of the page go to process_products, which writes none of    *)
(* the values read here.                                                   *)
(***************************************************************************)
(* The listing pages the calls are made for and are led to. *)
VisitedListings == {Seed(1), ListingURL(1, <<Param("p", 2)>>)}

listing_page_visit(category_name, url, max_visits) ==
    /\ category_progress[category_name] < max_visits
    /\ ~IsCategoryComplete(category_name)
    /\ \E resp \in DiscoveredPages(url) : parse_subcategory_page_call(url, category_name, resp)
    /\ category_progress' = [category_progress EXCEPT ![category_name] = @ + 1]

NextVisits ==
    /\ \E url \in VisitedListings : listing_page_visit("WOMAN", url, CategoryPageCap + Slack)
    /\ UNCHANGED <<extractorVars, pureVars, walk, seeds_started, lambdaVars>>

SpecVisits == Init /\ [][NextVisits]_vars

(***************************************************************************)
(* The products a run records, by key.  The fetching of the product pages  *)
(* is left to the extractor above: here a call extracts `n` products that  *)
(* no call has extracted before and stores each of them.                   *)
(***************************************************************************)
(* Sizes of the groups of products one call stores. *)
ProductBatches == {1, CategoryProductCap \div 2}

(* Subcategories the recording calls are made with. *)
RecordedSubcategories == {"JEANS", "REMERAS"}

(* The record stored for the i-th product. *)
StoredProduct(i, category_name, subcategory_name) ==
    formatted_info(extract_product_details(
        ProductURL(i), category_name, subcategory_name,
        CHOOSE resp \in Pages({"N"}, {"D"}, {"in"}, {<<>>}, {<<>>}, {<<>>}) : TRUE))

StoredProducts(first, n, category_name, subcategory_name) ==
    [i \in 1..n |-> StoredProduct(first + i, category_name, subcategory_name)]

(* process_products: every valid product is appended under               *)
(* f"{category_name}_{subcategory_name}".                                  *)
process_products_stores(category_name, subcategory_name, n, max_calls) ==
    /\ ncalls < max_calls
    /\ ncalls' = ncalls + 1
    /\ LET first == Cardinality(product_urls_extracted) IN
         /\ product_urls_extracted' =
                product_urls_extracted \cup {ProductURL(first + i) : i \in 1..n}
         /\ products_by_category' =
                [products_by_category EXCEPT ![SubcategoryKey(category_name, subcategory_name)] =
                    @ \o StoredProducts(first, n, category_name, subcategory_name)]
    /\ UNCHANGED <<call, fetches, fed>>

(* parse_product_page, called for `n` products in turn: each is appended  *)
(* under the key of its category.                                          *)
parse_product_page_stores(category_name, subcategory_name, n, max_calls) ==
    /\ ncalls < max_calls
    /\ ncalls' = ncalls + 1
    /\ LET first == Cardinality(product_urls_extracted) IN
         /\ product_urls_extracted' =
                product_urls_extracted \cup {ProductURL(first + i) : i \in 1..n}
         /\ products_by_category' =
                [products_by_category EXCEPT ![ParseProductKey(category_name, subcategory_name)] =
                    @ \o StoredProducts(first, n, category_name, subcategory_name)]
    /\ UNCHANGED <<call, fetches, fed>>

NextRecord ==
    /\ \E c \in Categories, s \in RecordedSubcategories, n \in ProductBatches :
          \/ process_products_stores(c, s, n, MaxStoreCalls)
          \/ parse_product_page_stores(c, s, n, MaxStoreCalls)
    /\ UNCHANGED <<pureVars, walkerVars, lambdaVars>>

SpecRecord == Init /\ [][NextRecord]_vars

(* The products recorded for a category, under its own key and under the  *)
(* keys of its subcategories.                                              *)
RecordedProducts(category_name) ==
    TotalLen(products_by_category, {k \in Keys : k[1] = category_name})

(***************************************************************************)
(* upsert_item over the records of product pages that differ in their     *)
(* size elements.                                                          *)
(***************************************************************************)
SizedItemDatas(max_size_elements) ==
    {ItemDataOf(ProductURL(1), resp, b) :
        resp \in Pages({"N"}, {"D"}, {"none", "in"}, TallesRaw(max_size_elements), {<<>>}, {<<>>}),
        b \in BrandIds}

NextSizes ==
    /\ \E d \in SizedItemDatas(MaxSizeElements) : upsert_item(d, MaxItems)
    /\ UNCHANGED <<extractorVars, pureVars, walkerVars, worker, discover>>

SpecSizes == Init /\ [][NextSizes]_vars

(***************************************************************************)
(* upsert_item called by worker processes at the same time: every call     *)
(* has its own connection and transaction, which reads the rows committed   *)
(* when its SELECT runs and commits after its INSERT or UPDATE.  The        *)
(* statements take no lock and name no conflict target.                     *)
(***************************************************************************)
(* The SELECT of upsert_item and cur.fetchone(). *)
upsert_item_select(c, d) ==
    /\ txn[c].pc = "idle"
    /\ \E existing \in Fetchone(Lookup(items, d)) :
          txn' = [txn EXCEPT ![c] = [pc |-> "selected", d |-> d, existing |-> existing]]
    /\ UNCHANGED <<items, store_log>>

(* The UPDATE of the row found, or the INSERT when none was found, and      *)
(* conn.commit().                                                           *)
upsert_item_commit(c, max_items) ==
    /\ txn[c].pc = "selected"
    /\ txn[c].existing = 0 => Len(items) < max_items
    /\ items' = UpsertItem(items, txn[c].d, txn[c].existing)
    /\ store_log' = UpsertLog(items, txn[c].d, txn[c].existing)
    /\ txn' = [txn EXCEPT ![c] = NoTxn]

NextRace ==
    /\ \/ \E c \in Connections, d \in {x \in ItemDatas : x.brand_id = "brand-1"} :
             upsert_item_select(c, d)
       \/ \E c \in Connections : upsert_item_commit(c, MaxItems)
    /\ UNCHANGED <<extractorVars, resolver, detector, crawl, output, extraction, classified,
                   parsed, pagination, walkerVars, item_images, item_x_item_colors, worker,
                   discover>>

SpecRace == Init /\ [][NextRace]_vars

(***************************************************************************)
(* Observations on the extractor.                                          *)
(***************************************************************************)
(* The places of the records of a URL in the successful output. *)
OutputPlaces(u) ==
    {ki \in UNION {{<<k, i>> : i \in DOMAIN products_by_category[k]} : k \in Keys} :
        products_by_category[ki[1]][ki[2]].url = u}

OutputCount(u) == Cardinality(OutputPlaces(u))

IsSuccess(result) == result.kind = "pair" /\ result.info # None

(* Successful results of u that a running call holds and has not stored. *)
PendingSuccesses(u) ==
    {ck \in UNION {{<<c, "task", k>> : k \in DOMAIN call[c].task} : c \in Callers} :
        IsSuccess(call[ck[1]].task[ck[3]].result) /\ call[ck[1]].task[ck[3]].url = u}
    \cup
    {ck \in UNION {{<<c, "results", k>> : k \in DOMAIN call[c].results} : c \in Callers} :
        IsSuccess(call[ck[1]].results[ck[3]]) /\ call[ck[1]].results[ck[3]].url = u}

SuccessCount(u) == OutputCount(u) + Cardinality(PendingSuccesses(u))

InFlight(c) == Cardinality({k \in DOMAIN call[c].task : call[c].task[k].pc = "fetching"})

(***************************************************************************)
(* C1 (as amended): with calls made one after another, no URL appears      *)
(* twice in the successful output, and once a URL is in the extracted set  *)
(* (its extraction succeeded) feeding it again makes no further fetch.     *)
(***************************************************************************)
C1_DedupAfterSuccess ==
    /\ [](\A u \in ProductURLs : OutputCount(u) <= 1)
    /\ [][\A u \in ProductURLs :
            u \in product_urls_extracted => fetches'[u] = fetches[u]]_vars

(* C1 witness: a URL extracted once, fed a second time, and not fetched again. *)
C1_Witness ==
    \E u \in ProductURLs :
        /\ fed[u] = 2 /\ fetches[u] = 1 /\ OutputCount(u) = 1
        /\ \A c \in Callers : call[c].pc = "idle"

(* C1 as stated: no URL twice in the output, and a URL fed twice is       *)
(* fetched exactly once.                                                   *)
C1_Original ==
    /\ \A u \in ProductURLs : OutputCount(u) <= 1
    /\ \A u \in ProductURLs : fed[u] >= 2 => fetches[u] <= 1

(***************************************************************************)
(* C2: when two extraction tasks for one URL overlap, exactly one          *)
(* successful record is produced for the URL (the other task returns       *)
(* without a record).                                                      *)
(***************************************************************************)
C2_RaceOneRecord == \A u \in ProductURLs : SuccessCount(u) <= 1

(***************************************************************************)
(* C3: a URL is in the extracted set only after a successful extraction    *)
(* of it; a task that ends in failure (failed crawl, exception, failed     *)
(* validation) leaves the extracted set unchanged; and a URL that is fed   *)
(* while it is not in the extracted set is fetched (again).                *)
(***************************************************************************)
C3_MarkOnlyOnSuccess ==
    /\ [](\A u \in product_urls_extracted : SuccessCount(u) >= 1)
    /\ [][\A c \in Callers :
            /\ \A k \in DOMAIN call[c].task :
                 (/\ call[c].task[k].pc = "fetching"
                  /\ k \in DOMAIN call'[c].task
                  /\ call'[c].task[k].pc = "done"
                  /\ ~IsSuccess(call'[c].task[k].result))
                 => product_urls_extracted' = product_urls_extracted
            /\ (call[c].pc = "parse" /\ call'[c].pc = "idle"
                /\ products_by_category' = products_by_category)
                 => product_urls_extracted' = product_urls_extracted]_vars
    /\ [][\A u \in ProductURLs :
            (fed'[u] > fed[u] /\ u \notin product_urls_extracted)
            => \/ fetches'[u] = fetches[u] + 1
               \/ \E c \in Callers : \E k \in DOMAIN call'[c].urls_to_process :
                     call'[c].pc = "gather" /\ call'[c].urls_to_process[k] = u]_vars

(* C3 witness: a URL whose first extraction failed is being fetched again. *)
C3_Witness ==
    \E u \in ProductURLs :
        /\ fetches[u] = 2 /\ fed[u] = 2
        /\ u \notin product_urls_extracted

(***************************************************************************)
(* C4: in a process_products call at most max_concurrent extractions are   *)
(* in flight; a batch holds exactly max_concurrent URLs, the last one      *)
(* possibly fewer; and a batch starts only when every URL of the batches   *)
(* before it has its result.                                               *)
(***************************************************************************)
C4_BoundedBatches ==
    /\ [](\A c \in Callers : call[c].pc \in {"gather", "sleep"} =>
            /\ InFlight(c) <= call[c].max_concurrent
            /\ call[c].semaphore >= 0
            /\ InFlight(c) + call[c].semaphore = call[c].max_concurrent
            /\ call[c].i % call[c].max_concurrent = 0
            /\ Len(call[c].results) = (IF call[c].pc = "gather" THEN call[c].i
                                       ELSE call[c].i + call[c].max_concurrent)
            /\ call[c].pc = "gather" =>
                 /\ Len(call[c].task) <= call[c].max_concurrent
                 /\ \/ Len(call[c].task) = call[c].max_concurrent
                    \/ call[c].i + Len(call[c].task) = Len(call[c].urls_to_process)
                 /\ \A k \in DOMAIN call[c].task :
                      call[c].task[k].url = call[c].urls_to_process[call[c].i + k])
    /\ [][\A c \in Callers :
            (call[c].pc # "idle" /\ call'[c].pc # "idle" /\ call'[c].i # call[c].i)
            => /\ call[c].pc = "sleep"
               /\ InFlight(c) = 0
               /\ Len(call[c].results) = call'[c].i]_vars

(* C4 witness: the second batch of a call is in flight, the first batch   *)
(* having its results.                                                     *)
C4_Witness ==
    \E c \in Callers :
        /\ call[c].pc = "gather"
        /\ call[c].i = call[c].max_concurrent
        /\ Len(call[c].results) = call[c].i
        /\ call[c].task[1].pc = "fetching"

(***************************************************************************)
(* C6: find_next_page_url never returns the current URL: it returns None   *)
(* or a candidate that differs from the current URL.                       *)
(***************************************************************************)
InList(url, list) == \E i \in DOMAIN list : list[i] = url

C6_NeverCurrent ==
    /\ resolver.next_page # resolver.current_url
    /\ resolver.next_page = EmptyURL \/ InList(resolver.next_page, resolver.pagination_links)

(* C6 witness: the current URL is among the candidates, even the first of *)
(* them, and another candidate is returned.                                *)
C6_Witness ==
    /\ resolver.pagination_links # <<>>
    /\ resolver.pagination_links[1] = resolver.current_url
    /\ resolver.next_page # EmptyURL

(***************************************************************************)
(* C7: with p the page index of the current URL (1 without a page          *)
(* parameter), find_next_page_url returns the first candidate whose page   *)
(* index is p+1 when there is one, otherwise the first candidate that is   *)
(* not the current URL, and None when there are no candidates.             *)
(***************************************************************************)
IsFirst(i, I) == i \in I /\ \A j \in I : i <= j

C7_NextPageChoice ==
    LET links == resolver.pagination_links
        p == IF HasPageNumber(resolver.current_url) THEN PageNumber(resolver.current_url) ELSE 1
        exact == {i \in DOMAIN links : HasPageNumber(links[i]) /\ PageNumber(links[i]) = p + 1}
        other == {i \in DOMAIN links : links[i] # resolver.current_url}
    IN /\ exact # {} => \E i \in exact : IsFirst(i, exact) /\ resolver.next_page = links[i]
       /\ (exact = {} /\ other # {}) =>
             \E i \in other : IsFirst(i, other) /\ resolver.next_page = links[i]
       /\ links = <<>> => resolver.next_page = EmptyURL

(* C7 witness: the current page is p=2 and the candidates are p=1, p=3;   *)
(* the p=3 candidate is returned.                                          *)
C7_Witness ==
    /\ resolver.current_url = ListingURL(1, <<Param("p", 2)>>)
    /\ resolver.pagination_links = <<ListingURL(1, <<Param("p", 1)>>), ListingURL(1, <<Param("p", 3)>>)>>
    /\ resolver.next_page = ListingURL(1, <<Param("p", 3)>>)

(***************************************************************************)
(* C9: completion is monotone: when a detector returns true for a          *)
(* snapshot, it returns true for every snapshot that is equal or worse on  *)
(* every field (at least as long an empty streak, no more new products, at *)
(* least as many products, at least as many pages).                        *)
(***************************************************************************)
EqualOrWorse(a, b) ==
    /\ b.consecutive_empty >= a.consecutive_empty
    /\ b.new_products <= a.new_products
    /\ b.products >= a.products
    /\ b.pages >= a.pages

C9_CompletionMonotone ==
    (EqualOrWorse(detector.a, detector.b) /\ detector.complete_a) => detector.complete_b

(* C9 witness: a snapshot completed by the stall rule alone and a         *)
(* strictly worse one.                                                     *)
C9_Witness ==
    /\ detector.variant = "category"
    /\ detector.a = Snapshot(0, 0, CategoryProductCap, CategoryStallPages + 1)
    /\ detector.b.consecutive_empty > 0 /\ detector.b.pages > detector.a.pages
    /\ EqualOrWorse(detector.a, detector.b)
    /\ detector.complete_a /\ detector.complete_b

(* C5: paginating one subcategory fetches at most max_pages listing pages  *)
(* through parse_subcategory_page whatever the links are, the synthetic    *)
(* next page of JavaScript pagination is built only while page_count is    *)
(* below max_pages, and the pagination of a subcategory always ends.       *)
C5_BoundedPagination ==
    /\ [](walk.listing_fetches <= walk.max_pages)
    /\ [][(walk.pc = "decide" /\ walk.next_page = JavascriptPaginationDetected
            /\ walk'.pc = "loop") => walk.page_count < walk.max_pages]_vars
    /\ (walk.pc # "idle" ~> walk.pc = "idle")

(* The last page the ceiling allows is being fetched at a synthetic URL. *)
C5_Witness ==
    /\ walk.pc = "parsing"
    /\ walk.max_pages >= 2
    /\ walk.listing_fetches = walk.max_pages
    /\ walk.javascript_pagination_detected

(* C8: the category detector answers complete exactly when the category   *)
(* has 3 consecutive empty pages, or no new product and more than 10 pages *)
(* processed, or more than 200 products recorded, or more than 20 pages    *)
(* processed.  Pages processed are the visits the walker counts in         *)
(* category_progress; products recorded are read as the detector reads     *)
(* them.  The detector is looked at where the walker calls it, at the     *)
(* head of its loop, when no page is in flight.                            *)
C8_CompleteExactlyWhen ==
    walk.pc = "loop" =>
        LET c == walk.parent_category IN
        IsCategoryComplete(c) <=>
            \/ consecutive_empty_pages[c] >= 3
            \/ new_products_found[c] = 0 /\ category_progress[c] > 10
            \/ Len(products_by_category[CategoryKey(c)]) > 200
            \/ category_progress[c] > 20

(* C10: once three consecutive listing pages of a category gave no new    *)
(* product the detector answers complete and the walker has no page in     *)
(* flight, neither a listing page nor a confirmatory fetch.                *)
C10_NoFourthPage ==
    \A c \in Categories :
        consecutive_empty_pages[c] >= 3 =>
            /\ IsCategoryComplete(c)
            /\ walk.parent_category = c => walk.pc \notin {"parsing", "confirming"}

(* C11: when the crawl of a listing page fails the page is counted as an   *)
(* empty page: the consecutive_empty_pages counter of the category grows   *)
(* by one.                                                                 *)
C11_FailedPageCountsEmpty ==
    [][(walk.pc = "parsing" /\ walk'.pc = "check" /\ walk'.result = "failed")
         => consecutive_empty_pages'[walk.parent_category]
              = consecutive_empty_pages[walk.parent_category] + 1]_vars

C13_AvailabilityFollowsLatest ==
    /\ [](\A d \in ItemDatas : \A existing \in Lookup(items, d) :
            items[existing].available /\ ~d.available =>
               LET flipped == UpsertItem(items, d, existing)
               IN /\ ~flipped[existing].available
                  /\ [msg |-> "is now unavailable", item_id |-> existing]
                        \in UpsertLog(items, d, existing)
                  /\ \A back \in ItemDatas :
                        back.name = d.name /\ back.brand_id = d.brand_id /\ back.available =>
                           \A again \in Lookup(flipped, back) :
                              /\ again = existing
                              /\ UpsertItem(flipped, back, again)[existing].available)
    /\ [][\A i \in DOMAIN items :
             items[i].available /\ ~items'[i].available =>
                \E ev \in store_log' : ev.item_id = i]_vars

(* An item has just been made unavailable by an upsert. *)
C13_Witness ==
    \E ev \in store_log :
        /\ ev.msg = "is now unavailable"
        /\ ~items[ev.item_id].available

(* The names of the records of a reconciliation. *)
ObservedNames(product_data_list) == {product_data_list[k].name : k \in DOMAIN product_data_list}

(* C16: after sync_product_availability for a brand every item of the     *)
(* brand that was available and whose name was not observed is             *)
(* unavailable, and every item of the brand whose name was observed        *)
(* carries the availability and the available sizes of an observation of   *)
(* its name.                                                               *)
C16_Reconciliation ==
    \A b \in BrandIds, product_data_list \in ObservedLists :
        LET after == SyncProductAvailability(items, b, product_data_list)
        IN \A i \in DOMAIN items :
              items[i].brand_id = b =>
                 /\ items[i].available /\ items[i].name \notin ObservedNames(product_data_list)
                       => ~after[i].available
                 /\ items[i].name \in ObservedNames(product_data_list)
                       => \E k \in DOMAIN product_data_list :
                             /\ product_data_list[k].name = items[i].name
                             /\ after[i].available = product_data_list[k].available
                             /\ after[i].sizes_available = product_data_list[k].sizes_available

(* C17: no store operation removes an item: the item ids only grow and an *)
(* item keeps its name and its brand.                                      *)
C17_ItemsNeverDeleted ==
    [][/\ DOMAIN items \subseteq DOMAIN items'
       /\ \A i \in DOMAIN items :
             items'[i].name = items[i].name /\ items'[i].brand_id = items[i].brand_id]_vars

(* An item with images has been marked unavailable by a reconciliation. *)
C17_Witness ==
    \E ev \in store_log :
        /\ ev.msg = "Marked unavailable"
        /\ ~items[ev.item_id].available
        /\ \E r \in item_images : r.item_id = ev.item_id

(* C14: the first upsert of a record whose (name, brand_id) is not stored *)
(* creates an item with available = true, for every record the worker      *)
(* passes to the store.                                                    *)
C14_CreatedAvailable ==
    [][Len(items') > Len(items) => items'[Len(items')].available]_vars

(* The images and the color links stored for an item. *)
ImagesOf(item_id) == {r \in item_images : r.item_id = item_id}

ColorsOf(item_id) == {r \in item_x_item_colors : r.item_id = item_id}

(* C15: after a successful sync of a record the stored images and color   *)
(* links of the item are exactly those of the extraction, none when the    *)
(* extraction has none.                                                    *)
C15_ReplacedWholesale ==
    worker.synced.item_id # 0 =>
        /\ ImagesOf(worker.synced.item_id)
              = ImageRows(worker.synced.item_id, worker.synced.image_urls)
        /\ ColorsOf(worker.synced.item_id)
              = ColorRows(worker.synced.item_id, worker.synced.colors)

(* C18: a failed unit does not end its loop: a worker run returns only    *)
(* after every record of the batch was taken, a discover run publishes     *)
(* only after every category was walked and returns only after a publish   *)
(* was attempted for every batch, the batches after one that raised        *)
(* included.                                                               *)
C18_LoopsNeverAborted ==
    /\ worker.pc = "done" => worker.taken = worker.count
    /\ discover.pc \in {"publish", "done"} => discover.walked = discover.count
    /\ discover.pc = "done" =>
          /\ Len(discover.batches) * SqsBatchSize >= Len(discover.all_product_urls)
          /\ \A b \in DOMAIN discover.batches :
                discover.batches[b].Entries
                   = Entries(discover.all_product_urls, (b - 1) * SqsBatchSize)

(* A worker run returned after a failed record followed by a successful   *)
(* one.                                                                    *)
C18_Witness ==
    /\ worker.pc = "done"
    /\ Len(worker.results) = 2
    /\ ~worker.results[1].success /\ worker.results[1].error = "exception"
    /\ worker.results[2].success

(* A discover run returned after a batch that raised followed by one that *)
(* was accepted.                                                           *)
C18_WitnessDiscover ==
    /\ discover.pc = "done"
    /\ Len(discover.batches) >= 2
    /\ ~discover.batches[1].accepted
    /\ discover.batches[2].accepted

(* C19: a worker run ends with a summary in which processed is           *)
(* successful + failed, every record of the batch is counted once, and     *)
(* every failed result carries its URL and a reason.                       *)
C19_Summary ==
    worker.pc = "done" =>
        /\ worker.summary.processed = worker.summary.successful + worker.summary.failed
        /\ worker.summary.processed = worker.count
        /\ \A k \in DOMAIN worker.results :
              ~worker.results[k].success =>
                 worker.results[k].has_url /\ worker.results[k].error # ""

(* The entries of the batches, one after another. *)
RECURSIVE Flatten(_)
Flatten(batches) ==
    IF batches = <<>> THEN <<>> ELSE Head(batches).Entries \o Flatten(Tail(batches))

(* C20: the batches have at most 10 entries, their entries one after      *)
(* another carry the discovered URLs in discovery order, each once, and    *)
(* the Ids of a batch are pairwise distinct.                               *)
C20_FanOutBatching ==
    /\ \A b \in DOMAIN discover.batches :
          LET entries == discover.batches[b].Entries
          IN /\ Len(entries) <= SqsBatchSize
             /\ Len(entries) >= 1
             /\ b < Len(discover.batches) => Len(entries) = SqsBatchSize
             /\ \A x, y \in DOMAIN entries : entries[x].Id = entries[y].Id => x = y
    /\ LET sent == Flatten(discover.batches)
       IN /\ Len(sent) <= Len(discover.all_product_urls)
          /\ \A k \in DOMAIN sent : sent[k].MessageBody.url = discover.all_product_urls[k]
          /\ discover.pc = "done" => Len(sent) = Len(discover.all_product_urls)

(* A run has published more than two batches, the last one short. *)
C20_Witness ==
    /\ discover.pc = "done"
    /\ Len(discover.batches) >= 3
    /\ Len(discover.batches[Len(discover.batches)].Entries) < SqsBatchSize

(* The URLs the queue accepted: the entries of the batches whose publish  *)
(* did not raise.                                                          *)
RECURSIVE AcceptedCount(_)
AcceptedCount(batches) ==
    IF batches = <<>> THEN 0
    ELSE (IF Head(batches).accepted THEN Len(Head(batches).Entries) ELSE 0)
         + AcceptedCount(Tail(batches))

(* C21: the count a discover run reports as enqueued is the number of     *)
(* URLs the queue accepted.                                                *)
C21_EnqueuedCount ==
    discover.pc = "done" => discover.total_urls = AcceptedCount(discover.batches)

(* C22: a URL delivered a second time in one batch is skipped: a record   *)
(* is synced only when no earlier record of the batch for the URL          *)
(* succeeded.                                                              *)
C22_SecondDeliverySkipped ==
    worker.synced.item_id # 0 =>
        \A k \in 1..(Len(worker.results) - 1) : ~worker.results[k].success

(* C24: a page fetch makes at most 3 attempts and ends with a result: a   *)
(* success at the first successful attempt, a failure after the 3rd failed *)
(* attempt; a failed result, a timeout and an exception are retried, and   *)
(* failed attempt k < 3 is followed by a pause of retry_delay * k, the 3rd *)
(* by none.                                                                *)
C24_FetchRetries ==
    /\ [](crawl.pc = "returned" =>
            LET n == Len(crawl.outcomes)
            IN /\ n <= MaxRetries
               /\ crawl.result = "success" <=> (n >= 1 /\ crawl.outcomes[n] = "success")
               /\ \A k \in 1..(n - 1) : crawl.outcomes[k] # "success"
               /\ crawl.result = "failure" => n = MaxRetries \/ ~validate_url(crawl.url)
               /\ crawl.pauses = [k \in 1..(n - 1) |-> RetryDelay * k])
    /\ (crawl.pc \in {"attempting", "sleeping"} ~> crawl.pc = "returned")

(* C23: after an interruption the output holds everything accumulated in  *)
(* memory: the product URLs, the progress of the categories and the        *)
(* extracted products.                                                     *)
C23_FlushedOnInterrupt ==
    output.exited /\ (product_urls # {} \/ \E c \in Categories : category_progress[c] > 0) =>
        /\ output.written
        /\ output.product_urls = product_urls
        /\ output.category_progress = category_progress
        /\ output.products_by_category = products_by_category

(* C25: an extracted record is accepted exactly when it has a non-empty   *)
(* source URL and a non-empty name or a non-empty description; a record    *)
(* with a name and an empty description is accepted.                       *)
C25_AcceptedWhenNamedOrDescribed ==
    extraction.pc # "idle" /\ extraction.resp.kind = "html"
    => (extraction.product_info # None
        <=> /\ extraction.url # EmptyURL
            /\ (extraction.resp.nombre # "" \/ extraction.resp.description # ""))

AllIn(sizes_available, sizes) == \A i \in DOMAIN sizes_available : InSeq(sizes_available[i], sizes)

(* C26: sizes subset: every available size of an extracted record is one  *)
(* of its sizes, and so is every available size of the item data the       *)
(* worker stores after normalize_sizes, whatever size elements the page    *)
(* has.                                                                    *)
C26_SizesSubset ==
    /\ extraction.product_info # None
       => AllIn(extraction.product_info["talles_disponibles"],
                extraction.product_info["talles_todos"])
    /\ extraction.pc = "normalized"
       => AllIn(extraction.item.sizes_available, extraction.item.sizes)

(* A page with a repeated label, one of its elements disabled, was        *)
(* extracted and normalised.                                               *)
C26_Witness ==
    /\ extraction.pc = "normalized"
    /\ extraction.resp.talles_raw = <<SizeElement("S", FALSE), SizeElement("s", TRUE)>>
    /\ extraction.item.sizes = <<"S">>
    /\ extraction.item.sizes_available = <<"S">>

(* C28: is_product_url gives False when an exclusion pattern matches,     *)
(* even when an inclusion pattern matches too; otherwise it gives True     *)
(* exactly when an inclusion pattern matches; and two calls on one URL     *)
(* agree.                                                                  *)
C28_ExclusionBeforeInclusion ==
    LET url == classified.url
        results == classified.results
    IN /\ non_product_patterns(url) => \A k \in DOMAIN results : ~results[k]
       /\ ~non_product_patterns(url) => \A k \in DOMAIN results : results[k] = product_patterns(url)
       /\ \A j, k \in DOMAIN results : results[j] = results[k]

(* A URL matching an exclusion and an inclusion pattern was classified    *)
(* twice.                                                                  *)
C28_Witness ==
    /\ Len(classified.results) = 2
    /\ non_product_patterns(classified.url)
    /\ product_patterns(classified.url)

(* C27: the discovery set only grows and each product URL is emitted      *)
(* once: no URL leaves product_urls, every member satisfies                *)
(* is_product_url, and no URL is in the products of two results of         *)
(* parse_category_page / parse_subcategory_page, nor twice in one.         *)
C27_DiscoveredOnce ==
    /\ [][product_urls \subseteq product_urls']_vars
    /\ [](\A u \in product_urls : is_product_url(u))
    /\ [](\A i, j \in DOMAIN parsed.results :
            \A k \in DOMAIN parsed.results[i], l \in DOMAIN parsed.results[j] :
                parsed.results[i][k] = parsed.results[j][l] => i = j /\ k = l)

(* A second page lists a product the first page returned beside a new    *)
(* one.                                                                    *)
C27_Witness ==
    /\ Len(parsed.results) = 2
    /\ parsed.results[1] = <<ProductURL(1)>>
    /\ parsed.grid = <<ProductURL(1), ProductURL(2)>>
    /\ parsed.results[2] = <<ProductURL(2)>>
    /\ product_urls = {ProductURL(1), ProductURL(2)}

(* C30: a URL whose extraction failed validation is not fetched again in   *)
(* the run of the walker and is not passed to the extractor again, though  *)
(* it is not in the extracted set.                                         *)
C30_InvalidNeverRefetched ==
    /\ [][extraction.pc = "extracted"
          => /\ fetches'[extraction.url] = fetches[extraction.url]
             /\ fed'[extraction.url] = fed[extraction.url]]_vars
    /\ [](extraction.pc = "extracted"
          => /\ extraction.url \notin product_urls_extracted
             /\ fetches[extraction.url] = 1
             /\ \A k \in Keys : \A i \in DOMAIN products_by_category[k] :
                    products_by_category[k][i].url # extraction.url)

(* The walker has parsed the second page of a listing after a product of  *)
(* the first page failed validation.                                       *)
C30_Witness ==
    /\ extraction.pc = "extracted"
    /\ extraction.url \in product_urls
    /\ walk.pc = "check"
    /\ walk.page_count = 2
    /\ walk.products_found = 0

(* C29: a category mapping miss is not an error.  The URLs of the queue   *)
(* are product URLs, for which infer_category_from_url gives UNKNOWN and   *)
(* GENERAL, a pair without a mapping: every item the worker stores has a   *)
(* null category_id and a null subcategory_id, and a record whose calls    *)
(* of the store all succeed is reported as a success.                      *)
C29_MappingMissStored ==
    /\ \A url \in ProductURLs : infer_category_from_url(url) = <<"UNKNOWN", "GENERAL">>
    /\ \A i \in DOMAIN items :
          items[i].main_category_id = "NULL" /\ items[i].subcategory_id = "NULL"
    /\ worker.synced.item_id # 0
       => /\ worker.synced.item_id \in DOMAIN items
          /\ worker.results[Len(worker.results)].success

(* A record without a mapping was stored and reported as a success. *)
C29_Witness ==
    /\ worker.synced.item_id = 1
    /\ items[1].main_category_id = "NULL"
    /\ items[1].subcategory_id = "NULL"
    /\ worker.results[Len(worker.results)].success

(* C31: an upsert of an existing item logs a size change exactly when the  *)
(* set of available sizes of the record differs from the stored one, the    *)
(* same sizes in another order logging none; and it logs that the item is   *)
(* now unavailable exactly when the stored item was available and the       *)
(* record is not.                                                           *)
C31_TransitionsLogged ==
    \A d \in SizedItemDatas(MaxSizeElements) : \A existing \in Lookup(items, d) :
        /\ [msg |-> "sizes changed", item_id |-> existing] \in UpsertLog(items, d, existing)
           <=> Range(items[existing].sizes_available) # Range(d.sizes_available)
        /\ [msg |-> "is now unavailable", item_id |-> existing] \in UpsertLog(items, d, existing)
           <=> items[existing].available /\ ~d.available

(* C32: worker processes that upsert records of one (name, brand_id) at     *)
(* the same time leave exactly one item of that key: the table never holds  *)
(* two items of one name and brand.                                         *)
C32_OneItemPerKey ==
    \A i, j \in DOMAIN items :
        items[i].name = items[j].name /\ items[i].brand_id = items[j].brand_id => i = j

(* C33: early stop on empty pages requires confirmation.  After the second *)
(* consecutive empty page of a subcategory with a next page the walker      *)
(* fetches that page to look for products: it does not stop at the check    *)
(* without the fetch; when the fetch found products it takes that page as   *)
(* the next one, and fetches it unless the page ceiling is reached.         *)
C33_ConfirmedEarlyStop ==
    /\ [][walk.pc = "check" /\ walk.products_found = 0 /\ walk.next_page # EmptyURL
            /\ walk.consecutive_empty_pages + 1 >= 2
          => walk'.pc = "confirming" /\ walk'.confirm_fetches = walk.confirm_fetches + 1]_vars
    /\ [][walk.pc = "decide" /\ walk.consecutive_empty_pages = 2 /\ walk.next_page # EmptyURL
          => walk'.pc = "loop" /\ walk'.current_url = walk.next_page]_vars
    /\ [][walk.pc = "loop" /\ walk.consecutive_empty_pages = 2
            /\ walk.next_page # EmptyURL /\ walk.current_url = walk.next_page
            /\ below_max_pages(walk.page_count, walk.max_pages)
          => walk'.pc = "parsing"]_vars


(* C34: once more than 200 products are recorded for a category, summed    *)
(* over the subcategories it was crawled under, is_category_complete       *)
(* returns true for it, and so the walker fetches no further listing page  *)
(* of it.                                                                  *)
C34_ProductCapStops ==
    \A c \in Categories :
        RecordedProducts(c) > CategoryProductCap => IsCategoryComplete(c)

(* C38: discover_and_enqueue fetches at most 3 listing pages for each      *)
(* category URL it is given and its run ends, whatever the pages link to;   *)
(* the JavaScript-pagination value given as next page is fetched by no      *)
(* request and ends the pagination of its category URL.                    *)
C38_DiscoverBounded ==
    /\ [](\A k \in DOMAIN pagination.fetched : pagination.fetched[k] <= DiscoverPageLimit)
    /\ <>(discover.pc = "done")
    /\ [][discover.pc = "page" /\ pagination.next_page = JavascriptPaginationDetected
          => /\ pagination'.fetched = pagination.fetched
             /\ discover'.walked = discover.walked + 1
             /\ discover'.pc = "category"]_vars

(* A run is over in which the first walk took three fetches over two       *)
(* pages that link to each other, and the pagination of the second walk    *)
(* ended on the JavaScript-pagination value after two fetches.             *)
C38_Witness ==
    /\ discover.pc = "done"
    /\ pagination.fetched = <<DiscoverPageLimit, 2>>
    /\ discover.page_count = 3
    /\ Cardinality(visited_urls_per_category["WOMAN"]) = 3
    /\ JavascriptPaginationDetected \in visited_urls_per_category["WOMAN"]

(* C39: within one run of discover_and_enqueue no product URL is in        *)
(* all_product_urls twice.                                                 *)
C39_PublishedOnce ==
    \A i, j \in DOMAIN discover.all_product_urls :
        discover.all_product_urls[i] = discover.all_product_urls[j] => i = j

(* The same category URL was given twice; its second walk found a product  *)
(* the first had not and the pages of both list the two.                   *)
C39_Witness ==
    /\ discover.pc = "done"
    /\ pagination.category_urls = <<Seed(1), Seed(1)>>
    /\ pagination.fetched = <<1, 1>>
    /\ discover.all_product_urls = <<ProductURL(1), ProductURL(2)>>
    /\ new_products_found["WOMAN"] = 2
    /\ consecutive_empty_pages["WOMAN"] = 0

(* The images and the color links stored for an item. *)
RowsOf(rows, item_id) == {r \in rows : r.item_id = item_id}

(* C36: an item and its images and colors are committed apart.  A record   *)
(* that fails after its item was written is reported failed with its URL,   *)
(* no row of items is ever taken back, and after a failed record every      *)
(* item has the images it had or all those of one list, and the color       *)
(* links it had or all those of one list.                                   *)
C36_SeparateCommits ==
    /\ [][Len(worker'.results) = Len(worker.results) + 1
          /\ ~worker'.results[Len(worker'.results)].success
          => /\ items' # items => /\ worker'.results[Len(worker'.results)].has_url
                                  /\ worker'.results[Len(worker'.results)].error = "exception"
             /\ \A item_id \in 1..Len(items') :
                   /\ \/ RowsOf(item_images', item_id) = RowsOf(item_images, item_id)
                      \/ \E image_urls \in ImageLists \ {<<>>} :
                            RowsOf(item_images', item_id) = ImageRows(item_id, image_urls)
                   /\ \/ RowsOf(item_x_item_colors', item_id) = RowsOf(item_x_item_colors, item_id)
                      \/ \E colors \in ColorLists \ {<<>>} :
                            RowsOf(item_x_item_colors', item_id) = ColorRows(item_id, colors)]_vars
    /\ [][Len(items') >= Len(items)]_vars

(* The second record failed after its update of the item had logged that   *)
(* the item is no longer available: the update is in the table and the      *)
(* images and colors of the first record are still stored.                  *)
C36_Witness ==
    /\ Len(worker.results) = 2
    /\ worker.results[1].success
    /\ ~worker.results[2].success
    /\ worker.results[2].has_url
    /\ Len(items) = 1
    /\ ~items[1].available
    /\ store_log = {[msg |-> "is now unavailable", item_id |-> 1]}
    /\ item_images = ImageRows(1, <<"a.jpg">>)
    /\ item_x_item_colors = ColorRows(1, <<"NEGRO">>)

(* C37: the counter of consecutive empty pages of a category is one for    *)
(* all its subcategories and only parse_subcategory_page changes it; once   *)
(* it has reached 3 it stays, and every call of                             *)
(* process_subcategory_with_pagination for the category made after that     *)
(* returns without fetching a listing page, whatever its subcategory.       *)
C37_CompletionAbsorbing ==
    /\ [][consecutive_empty_pages' # consecutive_empty_pages => walk.pc = "parsing"]_vars
    /\ [][\A c \in Categories :
            consecutive_empty_pages[c] >= CategoryEmptyLimit
            => consecutive_empty_pages'[c] = consecutive_empty_pages[c]]_vars
    /\ [][walk.pc = "loop" /\ walk.page_count = 0
          /\ consecutive_empty_pages[walk.parent_category] >= CategoryEmptyLimit
          => /\ walk' = IdleWalk
             /\ visited_urls_per_category' = visited_urls_per_category]_vars

(* The walk of the first subcategory ended with the counter at 3; the call *)
(* for the second subcategory was made and has returned, and its URL was    *)
(* never visited.                                                          *)
C37_Witness ==
    /\ seeds_started = 2
    /\ walk = IdleWalk
    /\ consecutive_empty_pages["WOMAN"] = CategoryEmptyLimit
    /\ Seed(1) \in visited_urls_per_category["WOMAN"]
    /\ Seed(2) \notin visited_urls_per_category["WOMAN"]

(* C35: once more than 20 visits of listing pages have been processed for  *)
(* a category, every visit counted and so a URL visited again too,          *)
(* is_category_complete returns true for it.                                *)
C35_PageCapStops ==
    \A c \in Categories :
        category_progress[c] > CategoryPageCap => IsCategoryComplete(c)

====
